---- MODULE Spec2Model ----
(***************************************************************************)
(* The incremental computation engine ("pico") of isograph: an epoch       *)
(* clock, a Source Table, a Derived Table of memoized computations and the *)
(* verify/execute algorithm that decides whether a stored result is        *)
(* reused.  DerivedNode::update is crates/pico_core/src/node.rs; the       *)
(* engine that calls it follows spec.md sections 4.2-4.4.                  *)
(***************************************************************************)
EXTENDS Integers, Sequences, FiniteSets, TLC

\* ---------------------------------------------------------------- bounds
MaxEpoch == 3
MaxValue == 2

\* ------------------------------------------------------------- identities
Keys == {"A", "B"}
SourceValues == 0..MaxValue

DerivedNodeId(key, param_id) == [key |-> key, param_id |-> param_id]

D1 == DerivedNodeId("add_a", 1)
D2 == DerivedNodeId("times_d1", 0)
D3 == DerivedNodeId("plus_div_b", 1)
DerivedNodeIds == {D1, D2, D3}

Source(key) == [kind |-> "Source", key |-> key]
Derived(id) == [kind |-> "Derived", id |-> id]

Dependency(node_to, time) == [node_to |-> node_to, time_verified_or_updated |-> time]

SourceNode(time_updated, value) == [time_updated |-> time_updated, value |-> value]

DerivedNode(time_verified, time_updated, dependencies, inner_fn, value) ==
  [time_verified |-> time_verified, time_updated |-> time_updated,
   dependencies |-> dependencies, inner_fn |-> inner_fn, value |-> value]

\* update without the assignment of the new value.
update_keep_value(self, other) ==
  LET base == [self EXCEPT !.dependencies = other.dependencies,
                           !.time_verified = other.time_verified]
  IN IF self.value # other.value
       THEN [node |-> [base EXCEPT !.time_updated = other.time_updated],
             changed |-> TRUE]
       ELSE [node |-> base, changed |-> FALSE]

\* update that reports a change whenever it is called.
update_report_always(self, other) ==
  LET base == [self EXCEPT !.dependencies = other.dependencies,
                           !.time_verified = other.time_verified]
  IN IF self.value # other.value
       THEN [node |-> [base EXCEPT !.value = other.value,
                                   !.time_updated = other.time_updated],
             changed |-> TRUE]
       ELSE [node |-> base, changed |-> TRUE]

\* update that bumps time_updated whether or not the value changed.
update_always_bump(self, other) ==
  LET base == [self EXCEPT !.dependencies = other.dependencies,
                           !.time_verified = other.time_verified,
                           !.time_updated = other.time_updated]
  IN IF self.value # other.value
       THEN [node |-> [base EXCEPT !.value = other.value], changed |-> TRUE]
       ELSE [node |-> base, changed |-> FALSE]

\* update that keeps the dependency list of the previous execution.
update_keep_dependencies(self, other) ==
  LET base == [self EXCEPT !.time_verified = other.time_verified]
  IN IF self.value # other.value
       THEN [node |-> [base EXCEPT !.value = other.value,
                                   !.time_updated = other.time_updated],
             changed |-> TRUE]
       ELSE [node |-> base, changed |-> FALSE]

\* update without the assignment of time_verified.
update_keep_time_verified(self, other) ==
  LET base == [self EXCEPT !.dependencies = other.dependencies]
  IN IF self.value # other.value
       THEN [node |-> [base EXCEPT !.value = other.value,
                                   !.time_updated = other.time_updated],
             changed |-> TRUE]
       ELSE [node |-> base, changed |-> FALSE]

\* update that replaces the dependency list only together with the value.
update_dependencies_with_value(self, other) ==
  LET base == [self EXCEPT !.time_verified = other.time_verified]
  IN IF self.value # other.value
       THEN [node |-> [base EXCEPT !.dependencies = other.dependencies,
                                   !.value = other.value,
                                   !.time_updated = other.time_updated],
             changed |-> TRUE]
       ELSE [node |-> base, changed |-> FALSE]

\* update that takes time_verified from the node's own time_updated.
update_verified_from_updated(self, other) ==
  LET base == [self EXCEPT !.dependencies = other.dependencies,
                           !.time_verified = self.time_updated]
  IN IF self.value # other.value
       THEN [node |-> [base EXCEPT !.value = other.value,
                                   !.time_updated = other.time_updated],
             changed |-> TRUE]
       ELSE [node |-> base, changed |-> FALSE]

\* DerivedNode::update: dependencies and time_verified are taken from the
\* fresh node; value and time_updated only when the value differs.
update(self, other) ==
  LET base == [self EXCEPT !.dependencies = other.dependencies,
                           !.time_verified = other.time_verified]
  IN IF self.value # other.value
       THEN [node |-> [base EXCEPT !.value = other.value,
                                   !.time_updated = other.time_updated],
             changed |-> TRUE]
       ELSE [node |-> base, changed |-> FALSE]

\* ------------------------------------------------- recomputation functions
\* An inner_fn is a pure program over the database: given the values it has
\* read so far it asks for the next source or derived value, returns, or
\* panics.
ReadSource(key) == [op |-> "read_source", key |-> key]
Resolve(id) == [op |-> "resolve", id |-> id]
Return(value) == [op |-> "return", value |-> value]
Panic == [op |-> "panic"]

\* add_a(p) = A + p
add_a(p, vals) ==
  IF Len(vals) = 0 THEN ReadSource("A") ELSE Return(vals[1] + p)

\* times_d1(p) = add_a(1) * p
times_d1(p, vals) ==
  IF Len(vals) = 0 THEN Resolve(D1) ELSE Return(vals[1] * p)

\* plus_div_b(p) = times_d1(0) + (if B = 1 then p else add_a(1) / B): a
\* division that panics on B = 0, and reads add_a only when B is not 1.
plus_div_b(p, vals) ==
  CASE Len(vals) = 0 -> Resolve(D2)
    [] Len(vals) = 1 -> ReadSource("B")
    [] Len(vals) = 2 -> IF vals[2] = 0 THEN Panic
                        ELSE IF vals[2] = 1 THEN Return(vals[1] + p)
                        ELSE Resolve(D1)
    [] OTHER -> Return(vals[1] + (vals[3] \div vals[2]))

\* Two computations that call each other, each only for its own value of
\* A: forth(p) = if A = p then back(p + 1) else A, and
\* back(p) = if A = p then forth(p - 1) + 1 else A + 1.
Forth == DerivedNodeId("forth", 0)
Back == DerivedNodeId("back", 1)

forth(p, vals) ==
  CASE Len(vals) = 0 -> ReadSource("A")
    [] Len(vals) = 1 -> IF vals[1] = p THEN Resolve(DerivedNodeId("back", p + 1))
                        ELSE Return(vals[1])
    [] OTHER -> Return(vals[2])

back(p, vals) ==
  CASE Len(vals) = 0 -> ReadSource("A")
    [] Len(vals) = 1 -> IF vals[1] = p THEN Resolve(DerivedNodeId("forth", p - 1))
                        ELSE Return(vals[1] + 1)
    [] OTHER -> Return(vals[2] + 1)

InnerFn(id, vals) ==
  CASE id.key = "add_a" -> add_a(id.param_id, vals)
    [] id.key = "times_d1" -> times_d1(id.param_id, vals)
    [] id.key = "plus_div_b" -> plus_div_b(id.param_id, vals)
    [] id.key = "forth" -> forth(id.param_id, vals)
    [] id.key = "back" -> back(id.param_id, vals)

\* ------------------------------------------------------------ param arena
\* The threads that call into the database, and a thread that is in no
\* call.
Threads == {1, 2}
Idle == [pc |-> "idle", op |-> "none", param |-> [type |-> "u8", value |-> 0],
         param_id |-> 0, idx |-> 0]

\* A thread that is in no resolve call.
IdleWorker ==
  [pc |-> "idle", id |-> [key |-> "add_a", param_id |-> 1], stack |-> <<>>,
   ret |-> 0, did |-> "NotRecalculated", panicked |-> FALSE,
   dependencies |-> <<>>, ran |-> FALSE]

\* ---------------------------------------------------------- GraphQL schema
\* Ids are indices into the schema's vectors and count from 0; element i of
\* a vector is the (i + 1)-th of the sequence that models it.
Object(id) == [kind |-> "Object", id |-> id]
Scalar(id) == [kind |-> "Scalar", id |-> id]

SchemaScalar(name, id) == [name |-> name, id |-> id]

ID_GRAPHQL_TYPE == "ID"

\* The schema before any document is processed: no object, no field, and
\* the built-in scalars ID and String registered.
UnvalidatedGraphqlSchema_new ==
  [server_objects |-> <<>>,
   server_scalars |-> <<SchemaScalar(ID_GRAPHQL_TYPE, 0), SchemaScalar("String", 1)>>,
   server_fields |-> <<>>,
   defined_types |-> (ID_GRAPHQL_TYPE :> Scalar(0)) @@ ("String" :> Scalar(1)),
   string_type_id |-> 1]

\* No call yet.
NoCall ==
  [op |-> "none", ok |-> TRUE, error |-> "none", name |-> "none",
   fields |-> <<>>, pre |-> UnvalidatedGraphqlSchema_new,
   id_field_calls |-> 0, assertion_failed |-> FALSE, value |-> <<>>]

\* ------------------------------------------------------------------ state
\* epoch, sources, derived: the Database.  last: what the most recent
\* operation was given, found and returned.
\* dirty: nodes with a recorded Source dependency written since they were
\* last resolved.  pending: nodes with a source they depend on, directly or
\* transitively, given a new unequal value since their last resolve returned.
VARIABLES epoch, sources, derived, last, dirty, pending

\* The Param Arena: params is the append-only arena, param_id_to_index the
\* concurrent map from ParamId to arena index, held the ParamIds whose map
\* entry a thread holds.  callers: each thread's position in its call.
\* returned: what the arena calls that have returned were given and gave
\* back; calls: how many were made.
VARIABLES params, param_id_to_index, held, callers, returned, calls

\* workers: each thread's resolve call in progress, when resolve is called
\* from several threads.  tick: flipped whenever the thread whose call is
\* followed to its end takes a step.
VARIABLES workers, tick

engine_vars == <<epoch, sources, derived, last, dirty, pending>>
arena_vars == <<params, param_id_to_index, held, callers, returned, calls>>

worker_vars == <<workers, tick>>

\* Schema::new for the part add_refetch_fields_to_objects touches: no server
\* object entity and no client scalar selectable.
Schema_new ==
  [server_object_entities |-> <<>>, client_scalar_selectables |-> <<>>]

NotRefetched ==
  [called |-> FALSE, pre |-> Schema_new,
   result |-> [ok |-> TRUE, error |-> "none", value |-> <<>>]]

\* The GraphQL schema under construction and the outcome of the last call
\* that processed a definition or a document.
VARIABLES unvalidated_schema, outcome

\* The schema whose server object entities get their refetch fields, and what
\* the last call of add_refetch_fields_to_objects returned.
VARIABLES isograph_schema, refetched

refetch_vars == <<isograph_schema, refetched>>

compiler_vars == <<unvalidated_schema, outcome, refetch_vars>>

vars == <<engine_vars, arena_vars, worker_vars, compiler_vars>>

Recalculated == "Recalculated"
NotRecalculated == "NotRecalculated"

\* ----------------------------------------------------------------- engine
\* resolve runs synchronously on the calling thread.  The call stack is kept
\* explicitly: a resolve frame per resolve call in progress, an execute
\* frame per inner_fn in progress, the latter holding the dependencies that
\* inner_fn has recorded so far.
ResolveFrame(id, record) ==
  [kind |-> "resolve", id |-> id, record |-> record, phase |-> "start",
   i |-> 1, vals |-> <<>>, dependencies |-> <<>>]

ExecuteFrame(id) ==
  [kind |-> "execute", id |-> id, record |-> FALSE, phase |-> "run",
   i |-> 1, vals |-> <<>>, dependencies |-> <<>>]

\* The database plus one call's bookkeeping: the stack, the value and
\* dependency list handed back by the callee, the panic flag and the trace
\* of what ran.
Database(e, s, d) ==
  [epoch |-> e, sources |-> s, derived |-> d, stack |-> <<>>,
   trace |-> <<>>, panicked |-> FALSE, ret |-> 0, did |-> NotRecalculated,
   dependencies |-> <<>>]

log(db, event) == [db EXCEPT !.trace = Append(@, event)]

top(db) == db.stack[Len(db.stack)]
push(db, frame) == [db EXCEPT !.stack = Append(@, frame)]
pop(db) == [db EXCEPT !.stack = SubSeq(@, 1, Len(@) - 1)]

\* A panic unwinds the whole call; nothing is stored on the way out.
panic(db) == [db EXCEPT !.panicked = TRUE, !.stack = <<>>]

\* Append a dependency to the frame of the inner_fn that is executing (the
\* top frame), together with the value that inner_fn receives.
register_dependency(db, dep, value) ==
  [db EXCEPT !.stack[Len(db.stack)].dependencies = Append(@, dep),
             !.stack[Len(db.stack)].vals = Append(@, value)]

\* read_source that stamps the source it reads with the current epoch.
read_source_touch(db, key) ==
  IF key \notin DOMAIN db.sources THEN panic(db)
  ELSE LET node == db.sources[key]
       IN [register_dependency(log(db, <<"read", key>>),
                               Dependency(Source(key), db.epoch), node.value)
             EXCEPT !.sources[key].time_updated = db.epoch]

\* read_source(Key): the current value, recorded in the active frame with
\* the source's time_updated.
read_source(db, key) ==
  IF key \notin DOMAIN db.sources THEN panic(db)
  ELSE LET node == db.sources[key]
       IN register_dependency(log(db, <<"read", key>>),
                              Dependency(Source(key), node.time_updated), node.value)

\* One step of the inner_fn on top of the stack: return (the frame is popped
\* and its dependency list handed back), panic, read a source, or call
\* resolve.
run_inner_fn(db) ==
  LET frame == top(db)
      step == InnerFn(frame.id, frame.vals)
  IN CASE step.op = "return" ->
            [pop(db) EXCEPT !.ret = step.value, !.dependencies = frame.dependencies]
       [] step.op = "panic" -> panic(db)
       [] step.op = "read_source" -> read_source(db, step.key)
       [] step.op = "resolve" -> push(db, ResolveFrame(step.id, TRUE))

\* execute that first stores a placeholder node for an id not yet stored.
execute_with_placeholder(db, id, phase) ==
  LET placeholder == DerivedNode(0, 0, <<>>, id.key, 0)
      d == IF id \in DOMAIN db.derived THEN db
           ELSE [db EXCEPT !.derived = (id :> placeholder) @@ @]
  IN push(log([d EXCEPT !.stack[Len(db.stack)].phase = phase], <<"run", id>>),
          ExecuteFrame(id))

\* Execute inner_fn under a fresh dependency-recording frame; the resolve
\* frame below waits in the given phase.
execute(db, id, phase) ==
  push(log([db EXCEPT !.stack[Len(db.stack)].phase = phase], <<"run", id>>),
       ExecuteFrame(id))

\* A recorded Source dependency is stale when the source's time_updated
\* differs from the snapshot.
source_is_stale(db, dep) ==
  db.sources[dep.node_to.key].time_updated # dep.time_verified_or_updated

\* derived_is_stale that compares the snapshot with time_verified.
derived_is_stale_time_verified(db, dep) ==
  db.derived[dep.node_to.id].time_verified # dep.time_verified_or_updated

\* A recorded Derived dependency, once resolved, is stale when its
\* time_updated differs from the snapshot.
derived_is_stale(db, dep) ==
  db.derived[dep.node_to.id].time_updated # dep.time_verified_or_updated

\* The resolve on top of the stack returns: ret and did are set and, when an
\* inner_fn asked for it, the node is recorded in that inner_fn's frame with
\* its time_updated.
finish(db, did) ==
  LET frame == top(db)
      node == db.derived[frame.id]
      d == [log(pop(db), <<"ret", frame.id, did, node.value>>)
              EXCEPT !.ret = node.value, !.did = did]
  IN IF frame.record
       THEN register_dependency(d, Dependency(Derived(frame.id), node.time_updated),
                                node.value)
       ELSE d

\* Step 2's test: the node was verified in the current epoch.
verified_in_current_epoch(db, id) == db.derived[id].time_verified = db.epoch

\* Step 1, once inner_fn has returned: store a node with
\* time_verified = time_updated = current epoch; Recalculated.
create_derived_node(db, id) ==
  LET node == DerivedNode(db.epoch, db.epoch, db.dependencies, id.key, db.ret)
  IN finish([db EXCEPT !.derived = (id :> node) @@ @], Recalculated)

\* mark_verified that moves time_updated along with time_verified.
mark_verified_bump_time_updated(db, id) ==
  finish([db EXCEPT !.derived[id].time_verified = db.epoch,
                    !.derived[id].time_updated = db.epoch], NotRecalculated)

\* Step 3, no dependency stale: only time_verified moves; NotRecalculated.
mark_verified(db, id) ==
  finish([db EXCEPT !.derived[id].time_verified = db.epoch], NotRecalculated)

\* Step 3, once the re-executed inner_fn has returned: hand the fresh node to
\* DerivedNode::update, whose answer is the DidRecalculate reported.
update_derived_node(db, id) ==
  LET node == DerivedNode(db.epoch, db.epoch, db.dependencies, id.key, db.ret)
      u == update(db.derived[id], node)
  IN finish([db EXCEPT !.derived[id] = u.node],
            IF u.changed THEN Recalculated ELSE NotRecalculated)

\* The walk that goes on to the end of the list after a stale dependency
\* (remembered in the frame's vals) and re-executes only then.
any_dependency_stale_walk_all(db, id) ==
  LET frame == top(db)
      deps == frame.dependencies
      dep == deps[frame.i]
      n == Len(db.stack)
  IN IF frame.i > Len(deps)
       THEN IF frame.vals = <<>> THEN mark_verified(db, id)
            ELSE execute(db, id, "updated")
     ELSE IF frame.phase = "verify" /\ dep.node_to.kind = "Derived"
       THEN push([db EXCEPT !.stack[n].phase = "check"],
                 ResolveFrame(dep.node_to.id, FALSE))
     ELSE IF (IF dep.node_to.kind = "Source" THEN source_is_stale(db, dep)
              ELSE derived_is_stale(db, dep))
       THEN [db EXCEPT !.stack[n].phase = "verify", !.stack[n].i = @ + 1,
                       !.stack[n].vals = <<1>>]
     ELSE [db EXCEPT !.stack[n].phase = "verify", !.stack[n].i = @ + 1]

\* Step 3's walk over the recorded dependencies (the list the node had when
\* the walk began), in order, stopping at the first stale one: a Source is
\* compared at once, a Derived is resolved first (phase "check" compares it
\* once it has returned).
any_dependency_stale(db, id) ==
  LET frame == top(db)
      deps == frame.dependencies
      dep == deps[frame.i]
      n == Len(db.stack)
  IN IF frame.i > Len(deps) THEN mark_verified(db, id)
     ELSE IF frame.phase = "verify" /\ dep.node_to.kind = "Derived"
       THEN push([db EXCEPT !.stack[n].phase = "check"],
                 ResolveFrame(dep.node_to.id, FALSE))
     ELSE IF (IF dep.node_to.kind = "Source" THEN source_is_stale(db, dep)
              ELSE derived_is_stale(db, dep))
       THEN execute(db, id, "updated")
     ELSE [db EXCEPT !.stack[n].phase = "verify", !.stack[n].i = @ + 1]

\* resolve(DerivedNodeId, inner_fn): section 4.4, steps 1 to 3, for the
\* resolve frame on top of the stack.
resolve(db) ==
  LET frame == top(db)
      id == frame.id
      entered == log(db, <<"enter", id>>)
  IN CASE frame.phase = "start" ->
            IF id \notin DOMAIN db.derived THEN execute(entered, id, "created")
            ELSE IF verified_in_current_epoch(db, id)
              THEN finish(entered, NotRecalculated)
            ELSE [entered EXCEPT !.stack[Len(db.stack)].phase = "verify",
                                 !.stack[Len(db.stack)].dependencies =
                                   db.derived[id].dependencies]
       [] frame.phase \in {"verify", "check"} -> any_dependency_stale(db, id)
       [] frame.phase = "created" -> create_derived_node(db, id)
       [] frame.phase = "updated" -> update_derived_node(db, id)

\* The next step of the innermost call in progress.
next_step(db) == IF top(db).kind = "execute" THEN run_inner_fn(db) ELSE resolve(db)

RECURSIVE run_to_completion(_)
\* resolve returns only when complete.
run_to_completion(db) ==
  IF db.stack = <<>> THEN db ELSE run_to_completion(next_step(db))

\* pico's entry point: resolve for an outside caller.
execute_memoized_function(db, derived_node_id) ==
  run_to_completion(push(db, ResolveFrame(derived_node_id, FALSE)))

\* write_source that returns early when the value is the one stored.
write_source_skip_equal(db, key, value) ==
  LET e == db.epoch + 1
  IN IF key \in DOMAIN db.sources /\ db.sources[key].value = value
       THEN [db EXCEPT !.epoch = e]
       ELSE [db EXCEPT !.epoch = e, !.sources = (key :> SourceNode(e, value)) @@ @]

\* write_source that advances the epoch only when it overwrites.
write_source_no_advance_on_create(db, key, value) ==
  LET e == IF key \in DOMAIN db.sources THEN db.epoch + 1 ELSE db.epoch
  IN [db EXCEPT !.epoch = e, !.sources = (key :> SourceNode(e, value)) @@ @]

\* write_source that refuses a Key that is already in the Source Table.
write_source_reject_duplicate(db, key, value) ==
  LET e == db.epoch + 1
  IN IF key \in DOMAIN db.sources THEN panic(db)
     ELSE [db EXCEPT !.epoch = e, !.sources = (key :> SourceNode(e, value)) @@ @]

\* A source struct: its #[key] field and the rest of its contents.
SourceStruct(key_field, value) == [key_field |-> key_field, value |-> value]

\* SourceKey::intern: equal identifying values give equal Keys; a Key is
\* named here by the identifying value.
SourceKey_intern(field) == field

\* Source::get_key as derived: the Key is interned from the #[key] field
\* alone.
get_key(self) == SourceKey_intern(self.key_field)

\* write_source(Key, value): advance the epoch, then replace or create the
\* SourceNode stamped with the new epoch.
write_source(db, key, value) ==
  LET e == db.epoch + 1
  IN [db EXCEPT !.epoch = e, !.sources = (key :> SourceNode(e, value)) @@ @]

\* ---------------------------------------------------------- observations
IsEvent(tr, i, tag, id) == tr[i][1] = tag /\ tr[i][2] = id

Entered(tr, id) == \E i \in 1..Len(tr) : IsEvent(tr, i, "enter", id)
Ran(tr, id) == \E i \in 1..Len(tr) : IsEvent(tr, i, "run", id)
Returned(tr, id) == \E i \in 1..Len(tr) : IsEvent(tr, i, "ret", id)

\* The event of the first return of id: <<"ret", id, did, value>>.
FirstRet(tr, id) ==
  tr[CHOOSE i \in 1..Len(tr) :
       /\ IsEvent(tr, i, "ret", id)
       /\ \A j \in 1..(i - 1) : ~IsEvent(tr, j, "ret", id)]

\* The node records a dependency on source key directly.
reads_directly(d, id, key) ==
  \E i \in 1..Len(d[id].dependencies) : d[id].dependencies[i].node_to = Source(key)

RECURSIVE depends_on(_, _, _)
\* The node's recorded dependencies reach source key, directly or through
\* derived nodes.
depends_on(d, id, key) ==
  \E i \in 1..Len(d[id].dependencies) :
    LET to == d[id].dependencies[i].node_to
    IN IF to.kind = "Source" THEN to.key = key
       ELSE to.id \in DOMAIN d /\ depends_on(d, to.id, key)

RECURSIVE from_scratch(_, _, _)
\* What inner_fn computes over the source table alone, with no memoization:
\* [ok, value, reads].
from_scratch(srcs, id, vals) ==
  LET step == InnerFn(id, vals)
  IN CASE step.op = "return" -> [ok |-> TRUE, value |-> step.value, reads |-> {}]
       [] step.op = "panic" -> [ok |-> FALSE, value |-> 0, reads |-> {}]
       [] step.op = "read_source" ->
            IF step.key \notin DOMAIN srcs
              THEN [ok |-> FALSE, value |-> 0, reads |-> {step.key}]
              ELSE LET r == from_scratch(srcs, id, Append(vals, srcs[step.key].value))
                   IN [r EXCEPT !.reads = @ \cup {step.key}]
       [] step.op = "resolve" ->
            LET v == from_scratch(srcs, step.id, <<>>)
            IN IF ~v.ok THEN v
               ELSE LET r == from_scratch(srcs, id, Append(vals, v.value))
                    IN [r EXCEPT !.reads = @ \cup v.reads]

\* ---------------------------------------------------------------- actions
Snapshot ==
  [epoch |-> epoch, sources |-> sources, derived |-> derived,
   dirty |-> dirty, pending |-> pending]

NoOp ==
  [op |-> "none", key |-> "A", value |-> 0, id |-> D1, pre |-> Snapshot,
   panicked |-> FALSE, ret |-> 0, did |-> NotRecalculated, trace |-> <<>>]

InitOutsideSchema ==
  /\ epoch = 0
  /\ sources = <<>>
  /\ derived = <<>>
  /\ dirty = {}
  /\ pending = {}
  /\ params = <<>>
  /\ param_id_to_index = <<>>
  /\ held = {}
  /\ callers = [t \in Threads |-> Idle]
  /\ returned = {}
  /\ calls = 0
  /\ workers = [t \in Threads |-> IdleWorker]
  /\ tick = 0
  /\ unvalidated_schema = UnvalidatedGraphqlSchema_new
  /\ outcome = NoCall
  /\ last = NoOp

Init ==
  /\ InitOutsideSchema
  /\ isograph_schema = Schema_new
  /\ refetched = NotRefetched

WriteSource(key, value) ==
  /\ epoch < MaxEpoch
  /\ LET source == SourceStruct(key, value)
         db == write_source(Database(epoch, sources, derived), get_key(source),
                            source.value)
     IN /\ epoch' = db.epoch
        /\ sources' = db.sources
        /\ derived' = db.derived
        /\ last' = [NoOp EXCEPT !.op = "write_source", !.key = get_key(source),
                                !.value = source.value, !.panicked = db.panicked]
        /\ dirty' = dirty \cup {id \in DOMAIN derived : reads_directly(derived, id, key)}
        /\ pending' =
             IF key \in DOMAIN sources /\ sources[key].value # value
               THEN pending \cup {id \in DOMAIN derived : depends_on(derived, id, key)}
               ELSE pending
  /\ UNCHANGED <<arena_vars, worker_vars, compiler_vars>>

ResolveNode(id) ==
  LET db == execute_memoized_function(Database(epoch, sources, derived), id)
  IN /\ epoch' = db.epoch
     /\ sources' = db.sources
     /\ derived' = db.derived
     /\ last' = [NoOp EXCEPT !.op = "resolve", !.id = id, !.panicked = db.panicked,
                             !.ret = IF db.panicked THEN 0 ELSE db.ret,
                             !.did = IF db.panicked THEN NotRecalculated ELSE db.did,
                             !.trace = db.trace]
     /\ dirty' = {n \in dirty : ~Entered(db.trace, n)}
     /\ pending' = {n \in pending : ~Returned(db.trace, n)}
     /\ UNCHANGED <<arena_vars, worker_vars, compiler_vars>>

Next ==
  \/ \E key \in Keys, value \in SourceValues : WriteSource(key, value)
  \/ \E id \in DerivedNodeIds : ResolveNode(id)

Spec == Init /\ [][Next]_vars

\* ----------------------------------------------------------------- claims
PreNode(id) == last.pre.derived[id]
Existed(id) == id \in DOMAIN last.pre.derived
IsRet(i) == last.trace[i][1] = "ret"

\* C1: never a stale result.  Every value a resolve hands back, to the
\* caller or to an inner_fn that asked for it, is the value inner_fn computes
\* from scratch over the current Source Table, and it is the value stored.
C1_NeverStale ==
  last.op = "resolve" =>
    /\ \A i \in 1..Len(last.trace) :
         IsRet(i) =>
           LET e == from_scratch(sources, last.trace[i][2], <<>>)
           IN e.ok /\ e.value = last.trace[i][4]
    /\ ~last.panicked =>
         /\ from_scratch(sources, last.id, <<>>).ok
         /\ last.ret = from_scratch(sources, last.id, <<>>).value
         /\ derived[last.id].value = last.ret

\* A stored plus_div_b node, three levels above A, comes back with a value
\* that differs from the one stored before, after A alone was written.
C1_Witness ==
  /\ last.op = "resolve" /\ last.id = D3 /\ ~last.panicked
  /\ Existed(D3) /\ PreNode(D3).value # last.ret
  /\ sources["B"].time_updated < PreNode(D3).time_verified
  /\ Ran(last.trace, D1) /\ Ran(last.trace, D2) /\ Ran(last.trace, D3)

\* C2: fast path.  A node whose resolve has returned has time_verified equal
\* to the current epoch until the next write_source; and a node verified in
\* the current epoch is returned at once: same value, NotRecalculated, its
\* entry untouched and no inner_fn run; for the node asked for, the call
\* neither runs nor verifies anything else.
C2_FastPath ==
  last.op = "resolve" =>
    /\ \A id \in DerivedNodeIds :
         Returned(last.trace, id) => derived[id].time_verified = epoch
    /\ \A id \in DOMAIN last.pre.derived :
         PreNode(id).time_verified = last.pre.epoch =>
           /\ ~Ran(last.trace, id)
           /\ derived[id] = PreNode(id)
           /\ \A i \in 1..Len(last.trace) :
                IsEvent(last.trace, i, "ret", id) =>
                  /\ last.trace[i][3] = NotRecalculated
                  /\ last.trace[i][4] = PreNode(id).value
           /\ id = last.id =>
                /\ ~last.panicked
                /\ last.ret = PreNode(id).value
                /\ last.did = NotRecalculated
                /\ last.trace = <<<<"enter", id>>, <<"ret", id, NotRecalculated, last.ret>>>>
                /\ derived = last.pre.derived

\* plus_div_b, verified but not changed in this epoch, is resolved again.
C2_Witness ==
  /\ last.op = "resolve" /\ last.id = D3 /\ Existed(D3)
  /\ PreNode(D3).time_verified = last.pre.epoch
  /\ PreNode(D3).time_updated < last.pre.epoch
  /\ last.did = NotRecalculated

\* C3 as stated: once a source a node depends on, directly or
\* transitively, was given a new unequal value, the node's next resolve
\* reports Recalculated.
C3_AlwaysRecalculated ==
  last.op = "resolve" =>
    \A id \in last.pre.pending :
      Returned(last.trace, id) => FirstRet(last.trace, id)[3] = Recalculated

\* C3, amended: once a source a node depends on, directly or transitively,
\* was given a new unequal value, the node's next resolve that returns hands
\* back the freshly computed value and reports Recalculated exactly when
\* that value is unequal to the value stored before.
C3_ChangePropagation ==
  last.op = "resolve" =>
    \A id \in last.pre.pending :
      Returned(last.trace, id) =>
        LET r == FirstRet(last.trace, id)
        IN /\ r[4] = from_scratch(sources, id, <<>>).value
           /\ r[4] = derived[id].value
           /\ (r[3] = Recalculated) <=> (r[4] # PreNode(id).value)

\* plus_div_b reaches A only through add_a and times_d1; A was given a new
\* value and plus_div_b comes back Recalculated with another value.
C3_Witness ==
  /\ last.op = "resolve" /\ last.id = D3 /\ D3 \in last.pre.pending
  /\ ~reads_directly(last.pre.derived, D3, "A")
  /\ sources["B"].time_updated < PreNode(D3).time_verified
  /\ last.did = Recalculated /\ last.ret # PreNode(D3).value

\* A recorded dependency that is unchanged: a Source not written since, a
\* Derived that was resolved in this epoch and kept its time_updated.
UnchangedDependency(dep) ==
  IF dep.node_to.kind = "Source"
    THEN sources[dep.node_to.key].time_updated = dep.time_verified_or_updated
    ELSE /\ derived[dep.node_to.id].time_verified = epoch
         /\ derived[dep.node_to.id].time_updated = dep.time_verified_or_updated

\* C4: early cutoff.  A stored node that is re-executed to an equal value
\* keeps its time_updated and reports NotRecalculated; and a stored node from
\* an earlier epoch whose recorded dependencies are all unchanged (each
\* Derived one resolved in this epoch with the time_updated recorded) is not
\* re-executed and reports NotRecalculated, at every level.
C4_EarlyCutoff ==
  last.op = "resolve" =>
    \A id \in DOMAIN last.pre.derived :
      /\ (Ran(last.trace, id) /\ Returned(last.trace, id)
            /\ derived[id].value = PreNode(id).value) =>
           /\ derived[id].time_updated = PreNode(id).time_updated
           /\ FirstRet(last.trace, id)[3] = NotRecalculated
      /\ (Entered(last.trace, id) /\ PreNode(id).time_verified < epoch
            /\ \A i \in 1..Len(PreNode(id).dependencies) :
                 UnchangedDependency(PreNode(id).dependencies[i])) =>
           /\ ~Ran(last.trace, id)
           /\ Returned(last.trace, id)
           /\ \A i \in 1..Len(last.trace) :
                IsEvent(last.trace, i, "ret", id) => last.trace[i][3] = NotRecalculated

\* A was rewritten: add_a is re-executed to an equal value, and neither
\* times_d1 nor plus_div_b, one and two levels above, is re-executed.
C4_Witness ==
  /\ last.op = "resolve" /\ last.id = D3 /\ last.did = NotRecalculated
  /\ Existed(D1) /\ Existed(D2) /\ Existed(D3)
  /\ Ran(last.trace, D1) /\ FirstRet(last.trace, D1)[3] = NotRecalculated
  /\ ~Ran(last.trace, D2) /\ ~Ran(last.trace, D3)
  /\ PreNode(D3).time_verified < epoch

\* C5: a stored node that is re-executed reports Recalculated if and only if
\* the value now stored is unequal to the value stored before.
C5_RecalculatedIffChanged ==
  last.op = "resolve" =>
    \A id \in DOMAIN last.pre.derived :
      (Ran(last.trace, id) /\ Returned(last.trace, id)) =>
        /\ derived[id].value = from_scratch(sources, id, <<>>).value
        /\ (FirstRet(last.trace, id)[3] = Recalculated)
             <=> (derived[id].value # PreNode(id).value)

\* The scenario: A = 1, D1 = 2, D2 = 0; A = 2 is written; resolving D2
\* re-executes D1 (3, Recalculated) and D2 (0 again, NotRecalculated).
C5_Witness ==
  /\ last.op = "resolve" /\ last.id = D2
  /\ Existed(D1) /\ PreNode(D1).value = 2 /\ Existed(D2) /\ PreNode(D2).value = 0
  /\ sources["A"].value = 2
  /\ last.trace = <<<<"enter", D2>>, <<"enter", D1>>, <<"run", D1>>, <<"read", "A">>,
                    <<"ret", D1, Recalculated, 3>>, <<"run", D2>>, <<"enter", D1>>,
                    <<"ret", D1, NotRecalculated, 3>>, <<"ret", D2, NotRecalculated, 0>>>>
  /\ last.did = NotRecalculated /\ last.ret = 0

\* A recorded dependency that is stale by the engine's criterion.
StaleDependency(dep) ==
  IF dep.node_to.kind = "Source"
    THEN sources[dep.node_to.key].time_updated # dep.time_verified_or_updated
    ELSE /\ dep.node_to.id \in DOMAIN derived
         /\ derived[dep.node_to.id].time_verified = epoch
         /\ derived[dep.node_to.id].time_updated # dep.time_verified_or_updated

\* C6: no unnecessary work.  The inner_fn of a stored node runs during a
\* resolve only if one of its recorded dependencies is stale (a Source whose
\* time_updated differs from the snapshot, a Derived whose time_updated once
\* resolved differs from it); and it does not run when every source its
\* computation reads was last written no later than the node was verified.
C6_NoUnnecessaryWork ==
  last.op = "resolve" =>
    \A id \in DOMAIN last.pre.derived :
      /\ Ran(last.trace, id) =>
           \E i \in 1..Len(PreNode(id).dependencies) :
             StaleDependency(PreNode(id).dependencies[i])
      /\ (\A key \in from_scratch(sources, id, <<>>).reads :
            /\ key \in DOMAIN sources
            /\ sources[key].time_updated <= PreNode(id).time_verified) =>
           ~Ran(last.trace, id)

\* times_d1 reads A alone, through add_a; B was written after times_d1 was
\* verified and times_d1 is resolved with no inner_fn run.
C6_Witness ==
  /\ last.op = "resolve" /\ last.id = D2 /\ Existed(D2)
  /\ "B" \in DOMAIN sources /\ sources["B"].time_updated > PreNode(D2).time_verified
  /\ PreNode(D2).time_verified < epoch
  /\ ~Ran(last.trace, D1) /\ ~Ran(last.trace, D2) /\ last.did = NotRecalculated

\* C7: a source write is always a change.  write_source stamps the
\* SourceNode with the newly advanced epoch whatever the value, and a node
\* that recorded a dependency on that Key directly re-executes its inner_fn
\* the next time it is resolved.
C7_WriteIsAlwaysAChange ==
  /\ last.op = "write_source" =>
       /\ epoch > last.pre.epoch
       /\ sources[last.key] = SourceNode(epoch, last.value)
  /\ last.op = "resolve" =>
       \A id \in last.pre.dirty : Entered(last.trace, id) => Ran(last.trace, id)

\* add_a was verified, A was then written once with the value it already
\* had, and add_a is re-executed (to an equal value).
C7_Witness ==
  /\ last.op = "resolve" /\ D1 \in last.pre.dirty
  /\ sources["A"].time_updated = epoch
  /\ PreNode(D1).time_verified = epoch - 1
  /\ Ran(last.trace, D1) /\ FirstRet(last.trace, D1)[3] = NotRecalculated

\* C8: the epoch strictly increases on every write_source, to a new or an
\* existing Key, and never decreases; the stamp of a write is above every
\* earlier epoch, so no two writes share a stamp, and every
\* SourceNode.time_updated is at most the current epoch.
C8_EpochMonotone ==
  /\ epoch >= last.pre.epoch
  /\ last.op = "write_source" =>
       /\ epoch > last.pre.epoch
       /\ sources[last.key].time_updated > last.pre.epoch
  /\ \A key \in DOMAIN sources : sources[key].time_updated <= epoch
  /\ \A k1, k2 \in DOMAIN sources :
       k1 # k2 => sources[k1].time_updated # sources[k2].time_updated

\* A Key is created after another Key was written twice.
C8_Witness ==
  /\ last.op = "write_source" /\ last.key \notin DOMAIN last.pre.sources
  /\ last.pre.epoch > 1 /\ DOMAIN last.pre.sources # {}

\* C9: resolve, with every nested verification, read_source and
\* re-execution, leaves the epoch and the Source Table as they were;
\* write_source leaves the Derived Table as it was.
C9_Frame ==
  /\ last.op = "resolve" => epoch = last.pre.epoch /\ sources = last.pre.sources
  /\ last.op = "write_source" => derived = last.pre.derived

\* A resolve of plus_div_b that verifies times_d1, re-executes plus_div_b and
\* reads B, changing the Derived Table.
C9_Witness ==
  /\ last.op = "resolve" /\ last.id = D3 /\ Existed(D3)
  /\ Ran(last.trace, D3) /\ ~Ran(last.trace, D2)
  /\ \E i \in 1..Len(last.trace) : last.trace[i] = <<"read", "B">>
  /\ derived # last.pre.derived

\* What a resolve of id gives after one more write, from a given database.
ResolveAfterWrite(e, s, d, key, value, id) ==
  execute_memoized_function(write_source(Database(e, s, d), key, value), id)

\* C10: a resolve whose inner_fn fails propagates the failure (no enclosing
\* resolve returns) and leaves the entry of every node whose resolve did not
\* return exactly as before, creating none; a later resolve of the same id,
\* at once or after a write, gives what it would have given had the failed
\* attempt not happened.
C10_FailureLeavesPriorState ==
  last.op = "resolve" =>
    /\ last.panicked <=> ~Returned(last.trace, last.id)
    /\ \A id \in DerivedNodeIds :
         (Entered(last.trace, id) /\ ~Returned(last.trace, id)) =>
           /\ last.panicked
           /\ id \in DOMAIN derived <=> Existed(id)
           /\ Existed(id) => derived[id] = PreNode(id)
    /\ last.panicked =>
         /\ execute_memoized_function(Database(epoch, sources, derived), last.id).panicked
         /\ \A key \in Keys, value \in SourceValues :
              LET a == ResolveAfterWrite(last.pre.epoch, last.pre.sources,
                                         last.pre.derived, key, value, last.id)
                  b == ResolveAfterWrite(epoch, sources, derived, key, value, last.id)
              IN /\ a.panicked = b.panicked
                 /\ ~a.panicked =>
                      /\ a.ret = b.ret /\ a.did = b.did
                      /\ a.derived[last.id].value = b.derived[last.id].value

\* plus_div_b is stored; B becomes 0; resolving plus_div_b verifies
\* times_d1 below it, then panics on the division, and is as it was.
C10_Witness ==
  /\ last.op = "resolve" /\ last.id = D3 /\ last.panicked
  /\ Existed(D3) /\ Returned(last.trace, D2)
  /\ Ran(last.trace, D3)
  /\ derived # last.pre.derived

\* ------------------------------------------------------------ param arena
\* Argument values: a u8 and a newtype over u8, whose contents hash alike.
MaxCalls == 2
TypeIds == {"u8", "Newtype"}
Params == [type : TypeIds, value : 0..MaxValue]

\* TypeId::of::<T>()
TypeId(type) == IF type = "u8" THEN 0 ELSE 1

\* The hasher's output space (u64 in the program).
HashModulus == 4

\* DefaultHasher: Hasher::write folds a datum into the state.
Hasher_write(state, datum) == (state * 3 + datum) % HashModulus

\* hash: the TypeId is hashed first, then the value.
hash(value) == Hasher_write(Hasher_write(0, TypeId(value.type)), value.value)

\* A boxed arena entry; cloned says whether the arena holds a clone of the
\* caller's value or the caller's value itself.
Box(param, cloned) == [type |-> param.type, value |-> param.value, cloned |-> cloned]

\* Index::new
Index(idx) == idx

None == [some |-> FALSE]
Some(v) == [some |-> TRUE, value |-> v]

Storage(p, m, h) == [params |-> p, param_id_to_index |-> m, held |-> h]

\* The intern call at its current position: hash; entry() (Occupied returns
\* the id, Vacant keeps the entry held); params.push; v.insert, which gives
\* the entry up.  The boxed value is given by the caller: a clone, or the
\* value moved.
intern_param(storage, local, box) ==
  CASE local.pc = "hash" ->
         [storage |-> storage,
          local |-> [local EXCEPT !.param_id = hash(local.param), !.pc = "entry"]]
    [] local.pc = "entry" ->
         IF local.param_id \in DOMAIN storage.param_id_to_index
           THEN [storage |-> storage, local |-> [local EXCEPT !.pc = "return"]]
           ELSE [storage |-> [storage EXCEPT !.held = @ \cup {local.param_id}],
                 local |-> [local EXCEPT !.pc = "push"]]
    [] local.pc = "push" ->
         [storage |-> [storage EXCEPT !.params = Append(@, box)],
          local |-> [local EXCEPT !.idx = Len(storage.params), !.pc = "insert"]]
    [] local.pc = "insert" ->
         [storage |-> [storage EXCEPT
                         !.param_id_to_index = (local.param_id :> Index(local.idx)) @@ @,
                         !.held = @ \ {local.param_id}],
          local |-> [local EXCEPT !.pc = "return"]]

\* intern that looks the ParamId up and, when absent, pushes and inserts
\* without holding the map entry in between.
intern_borrowed_param_check_then_act(storage, local) ==
  IF local.pc = "entry" /\ local.param_id \notin DOMAIN storage.param_id_to_index
    THEN [storage |-> storage, local |-> [local EXCEPT !.pc = "push"]]
    ELSE intern_param(storage, local, Box(local.param, TRUE))

\* intern that pushes the value on every call.
intern_owned_param_push_always(storage, local) ==
  IF local.pc = "entry" /\ local.param_id \in DOMAIN storage.param_id_to_index
    THEN [storage |-> [storage EXCEPT !.params = Append(@, Box(local.param, FALSE))],
          local |-> [local EXCEPT !.pc = "return"]]
    ELSE intern_param(storage, local, Box(local.param, FALSE))

\* intern_borrowed_param: the arena takes a clone of the borrowed value.
intern_borrowed_param(storage, local) ==
  intern_param(storage, local, Box(local.param, TRUE))

\* intern_owned_param: the arena takes the value itself.
intern_owned_param(storage, local) ==
  intern_param(storage, local, Box(local.param, FALSE))

\* get_param: the stored value of a ParamId, if any.
get_param(storage, param_id) ==
  IF param_id \notin DOMAIN storage.param_id_to_index THEN None
  ELSE LET idx == storage.param_id_to_index[param_id]
       IN IF idx < Len(storage.params) THEN Some(storage.params[idx + 1]) ELSE None

\* A thread calls intern with a borrowed or an owned value.
Intern(t, op, param) ==
  /\ calls < MaxCalls
  /\ callers[t].pc = "idle"
  /\ callers' = [callers EXCEPT ![t] = [Idle EXCEPT !.pc = "hash", !.op = op,
                                                      !.param = param]]
  /\ calls' = calls + 1
  /\ UNCHANGED <<params, param_id_to_index, held, returned>>
  /\ UNCHANGED <<engine_vars, worker_vars, compiler_vars>>

\* A thread in intern takes its next step; entry() waits while another
\* thread holds the entry of the same ParamId.
InternStep(t) ==
  LET local == callers[t]
      storage == Storage(params, param_id_to_index, held)
  IN /\ local.pc \in {"hash", "entry", "push", "insert"}
     /\ local.pc = "entry" => local.param_id \notin held
     /\ LET r == IF local.op = "intern_borrowed_param"
                   THEN intern_borrowed_param(storage, local)
                   ELSE intern_owned_param(storage, local)
        IN /\ params' = r.storage.params
           /\ param_id_to_index' = r.storage.param_id_to_index
           /\ held' = r.storage.held
           /\ callers' = [callers EXCEPT ![t] = r.local]
     /\ UNCHANGED <<returned, calls>>
     /\ UNCHANGED <<engine_vars, worker_vars, compiler_vars>>

\* intern returns its ParamId to the caller.
InternReturn(t) ==
  /\ callers[t].pc = "return"
  /\ returned' = returned \cup {[op |-> callers[t].op, param |-> callers[t].param,
                                 out |-> callers[t].param_id]}
  /\ callers' = [callers EXCEPT ![t] = Idle]
  /\ UNCHANGED <<params, param_id_to_index, held, calls>>
  /\ UNCHANGED <<engine_vars, worker_vars, compiler_vars>>

\* A thread reads the arena; the map lookup waits while the entry is held.
GetParam(t, param_id) ==
  /\ calls < MaxCalls
  /\ callers[t].pc = "idle"
  /\ param_id \notin held
  /\ returned' = returned \cup
       {[op |-> "get_param", param |-> param_id,
         mapped |-> param_id \in DOMAIN param_id_to_index,
         out |-> get_param(Storage(params, param_id_to_index, held), param_id)]}
  /\ calls' = calls + 1
  /\ UNCHANGED <<params, param_id_to_index, held, callers>>
  /\ UNCHANGED <<engine_vars, worker_vars, compiler_vars>>

ArenaNext ==
  \/ \E t \in Threads, param \in Params :
       \/ Intern(t, "intern_borrowed_param", param)
       \/ Intern(t, "intern_owned_param", param)
  \/ \E t \in Threads : InternStep(t)
  \/ \E t \in Threads : InternReturn(t)
  \/ \E t \in Threads, param_id \in 0..(HashModulus - 1) : GetParam(t, param_id)

SpecArena == Init /\ [][ArenaNext]_vars

\* ----------------------------------------------------------- arena claims
InternCalls == {r \in returned : r.op # "get_param"}
GetParamCalls == {r \in returned : r.op = "get_param"}
Arena == Storage(params, param_id_to_index, held)
EntriesOf(param_id) == {i \in 1..Len(params) : hash(params[i]) = param_id}

\* C11: interning dedup.  Two intern calls return the same ParamId if and
\* only if their values have the same concrete type and are equal; values of
\* different types, or unequal values of one type, never receive the same
\* ParamId.
C11_InterningDedup ==
  \A r1, r2 \in InternCalls : (r1.out = r2.out) <=> (r1.param = r2.param)

\* C12: interning is idempotent and the arena append-only.  The first intern
\* of a ParamId, borrowed or owned, appends exactly one entry, the caller's
\* value, and records ParamId -> index; an intern that finds its ParamId
\* changes neither arena nor map; the arena only grows at its end and a
\* recorded index never changes, so get_param gives the first-inserted value
\* for every ParamId ever returned.
C12_ArenaState ==
  /\ Len(params) = Cardinality(DOMAIN param_id_to_index)
                     + Cardinality({t \in Threads : callers[t].pc = "insert"})
  /\ \A t \in Threads :
       callers[t].pc = "insert" =>
         /\ callers[t].idx < Len(params)
         /\ params[callers[t].idx + 1] =
              Box(callers[t].param, callers[t].op = "intern_borrowed_param")
         /\ \A id \in DOMAIN param_id_to_index :
              param_id_to_index[id] # Index(callers[t].idx)
  /\ \A id1, id2 \in DOMAIN param_id_to_index :
       id1 # id2 => param_id_to_index[id1] # param_id_to_index[id2]
  /\ \A r \in InternCalls : get_param(Arena, r.out).some
  /\ \A r \in GetParamCalls : r.out.some => get_param(Arena, r.param) = r.out

C12_ArenaStep ==
  LET after == Storage(params', param_id_to_index', held')
  IN /\ Len(params) <= Len(params') /\ Len(params') <= Len(params) + 1
     /\ SubSeq(params', 1, Len(params)) = params
     /\ \A id \in DOMAIN param_id_to_index :
          /\ id \in DOMAIN param_id_to_index'
          /\ param_id_to_index'[id] = param_id_to_index[id]
          /\ get_param(after, id) = get_param(Arena, id)
     /\ \A t \in Threads :
          /\ (callers[t].pc = "entry" /\ callers'[t].pc = "return") =>
               params' = params /\ param_id_to_index' = param_id_to_index
          /\ (callers[t].pc = "entry" /\ callers'[t].pc = "push") =>
               callers[t].param_id \notin DOMAIN param_id_to_index
          /\ (callers[t].pc = "push" /\ callers'[t].pc = "insert") =>
               Len(params') = Len(params) + 1
          /\ (callers[t].pc = "insert" /\ callers'[t].pc = "return") =>
               /\ params' = params
               /\ DOMAIN param_id_to_index' =
                    DOMAIN param_id_to_index \cup {callers[t].param_id}
               /\ get_param(after, callers[t].param_id) =
                    Some(Box(callers[t].param, callers[t].op = "intern_borrowed_param"))

C12_IdempotentAppendOnly == [](C12_ArenaState) /\ [][C12_ArenaStep]_vars

\* One value was interned by a borrowed and by an owned call; the arena
\* holds the one entry of the call that came first.
C12_Witness ==
  /\ \E r1, r2 \in InternCalls :
       /\ r1.param = r2.param
       /\ r1.op = "intern_borrowed_param" /\ r2.op = "intern_owned_param"
       /\ get_param(Arena, r1.out) = Some(Box(r1.param, FALSE))
  /\ Len(params) = 1
  /\ \A t \in Threads : callers[t].pc = "idle"

\* C14: concurrent interning is an atomic insert-or-fetch.  Under every
\* interleaving, interns of equal values return the same ParamId; the arena
\* never holds two entries of one ParamId, nor two of one value; once an
\* intern has returned a ParamId the arena holds exactly one entry of it and
\* the map points at that entry; and a ParamId in the map always has a
\* stored value, for every reader.
C14_AtomicInsertOrFetch ==
  /\ \A r1, r2 \in InternCalls : r1.param = r2.param => r1.out = r2.out
  /\ \A id \in 0..(HashModulus - 1) : Cardinality(EntriesOf(id)) <= 1
  /\ \A i, j \in 1..Len(params) :
       (params[i].type = params[j].type /\ params[i].value = params[j].value) => i = j
  /\ \A r \in InternCalls :
       /\ Cardinality(EntriesOf(r.out)) = 1
       /\ r.out \in DOMAIN param_id_to_index
       /\ EntriesOf(r.out) = {param_id_to_index[r.out] + 1}
  /\ \A id \in DOMAIN param_id_to_index : get_param(Arena, id).some
  /\ \A r \in GetParamCalls : r.mapped => r.out.some

\* Two threads intern equal values at once: one has pushed its value and
\* holds the entry, the other waits at entry() for the same ParamId.
C14_Witness ==
  \E t1, t2 \in Threads :
    /\ t1 # t2
    /\ callers[t1].pc = "insert" /\ callers[t2].pc = "entry"
    /\ callers[t1].param = callers[t2].param
    /\ callers[t1].op # callers[t2].op
    /\ callers[t2].param_id \in held

\* ------------------------------------------------------ concurrent resolve
\* resolve called from several threads: each thread has its own call stack
\* and works on the shared tables; each access to one table entry (a read,
\* an insert, an update) is atomic, and the threads' steps interleave.
\* The nodes resolved concurrently: add_a(1) over source A, and
\* times_d1(1) = add_a(1) * 1 over it.
D4 == DerivedNodeId("times_d1", 1)
RacedIds == {D1, D4}
RacedKeys == {"A"}

\* The database as the thread sees it at its next step.
WorkerDatabase(w) ==
  [Database(epoch, sources, derived) EXCEPT
     !.stack = w.stack, !.ret = w.ret, !.did = w.did,
     !.dependencies = w.dependencies]

RECURSIVE run_inner_fn_to_next_resolve(_)
\* An inner_fn runs on its thread's own frame until it calls resolve or
\* has returned or panicked: steps that touch no Derived Table entry (the
\* Source Table is not written while a resolve is in progress).
run_inner_fn_to_next_resolve(db) ==
  IF db.stack # <<>> /\ top(db).kind = "execute"
    THEN run_inner_fn_to_next_resolve(run_inner_fn(db))
    ELSE db

\* A thread calls resolve(id).  Threads are interchangeable: thread t
\* calls only once every thread before it has called.
Call(t, id) ==
  /\ workers[t].pc # "running"
  /\ \A u \in Threads : u < t => workers[u].pc # "idle"
  /\ workers' = [workers EXCEPT ![t] =
       [IdleWorker EXCEPT !.pc = "running", !.id = id,
                          !.stack = <<ResolveFrame(id, FALSE)>>]]
  /\ UNCHANGED <<engine_vars, arena_vars, tick, compiler_vars>>

\* A thread in resolve takes its next step.
WorkerStep(t) ==
  /\ workers[t].pc = "running"
  /\ LET w == workers[t]
         db == run_inner_fn_to_next_resolve(next_step(WorkerDatabase(w)))
     IN /\ derived' = db.derived
        /\ workers' = [workers EXCEPT ![t] =
             [w EXCEPT !.pc = IF db.stack = <<>> THEN "done" ELSE "running",
                       !.stack = db.stack, !.ret = db.ret, !.did = db.did,
                       !.panicked = db.panicked, !.dependencies = db.dependencies,
                       !.ran = @ \/ Ran(db.trace, w.id)]]
  /\ UNCHANGED <<epoch, sources, last, dirty, pending, arena_vars, compiler_vars>>

\* write_source, while no resolve is in progress.
QuiescentWrite(key, value) ==
  /\ epoch < MaxEpoch
  /\ \A t \in Threads : workers[t].pc # "running"
  /\ LET db == write_source(Database(epoch, sources, derived), key, value)
     IN /\ epoch' = db.epoch
        /\ sources' = db.sources
  /\ workers' = [t \in Threads |-> IdleWorker]
  /\ UNCHANGED <<derived, last, dirty, pending, arena_vars, tick, compiler_vars>>

ConcurrentNext ==
  \/ \E t \in Threads, id \in RacedIds : Call(t, id)
  \/ \E t \in Threads : WorkerStep(t) /\ UNCHANGED tick
  \/ \E key \in RacedKeys, value \in SourceValues : QuiescentWrite(key, value)

SpecConcurrent == Init /\ [][ConcurrentNext]_vars

\* ------------------------------------------------------ concurrency claims
\* The recorded dependency is not stale: its snapshot is the time_updated
\* its target has now.
Fresh(dep) ==
  IF dep.node_to.kind = "Source"
    THEN sources[dep.node_to.key].time_updated = dep.time_verified_or_updated
    ELSE /\ dep.node_to.id \in DOMAIN derived
         /\ derived[dep.node_to.id].time_updated = dep.time_verified_or_updated

\* C13: threads resolving the same stale node concurrently, with no
\* write_source in between.  Under every interleaving a resolve that has
\* returned gave its caller the value inner_fn computes from the current
\* sources (and failed only if that computation fails), and from then on the
\* stored node holds that value with time_verified equal to the current
\* epoch and with a whole dependency list, none of it stale, whatever the
\* other thread does or has done.
C13_ConcurrentResolve ==
  \A t \in Threads :
    workers[t].pc = "done" =>
      LET w == workers[t]
          e == from_scratch(sources, w.id, <<>>)
      IN /\ w.panicked <=> ~e.ok
         /\ ~w.panicked =>
              /\ w.ret = e.value
              /\ w.id \in DOMAIN derived
              /\ derived[w.id].value = e.value
              /\ derived[w.id].time_verified = epoch
              /\ derived[w.id].dependencies # <<>>
              /\ \A i \in 1..Len(derived[w.id].dependencies) :
                   Fresh(derived[w.id].dependencies[i])

\* Both threads resolved the stale times_d1(1), both executed its inner_fn,
\* and the update of one found the value the other had just stored.
C13_Witness ==
  /\ \A t \in Threads :
       workers[t].pc = "done" /\ workers[t].id = D4 /\ workers[t].ran
  /\ \E t, u \in Threads :
       workers[t].did = Recalculated /\ workers[u].did = NotRecalculated

\* --------------------------------------------------------------- resolve,
\* step by step on one thread, over computations that call each other.
RunNext ==
  \/ \E id \in {Forth, Back} : Call(1, id)
  \/ WorkerStep(1) /\ tick' = 1 - tick
  \/ \E key \in Keys, value \in SourceValues : QuiescentWrite(key, value)

\* The thread is scheduled: it is in a call and takes a step.
Scheduled(t) ==
  /\ workers[t].pc = "running"
  /\ tick' = 1 - tick

\* A thread in a call keeps being scheduled.
SpecRunToCompletion == Init /\ [][RunNext]_vars /\ WF_tick(Scheduled(1))

\* The nodes a stored node records as Derived dependencies.
DependsOn(id) ==
  {derived[id].dependencies[i].node_to.id :
     i \in {j \in 1..Len(derived[id].dependencies) :
              derived[id].dependencies[j].node_to.kind = "Derived"}}

RECURSIVE ReachableFrom(_, _)
\* The nodes reached from a set of nodes along at most n recorded Derived
\* dependencies.
ReachableFrom(ids, n) ==
  IF n = 0 THEN ids
  ELSE ids \cup ReachableFrom(UNION {DependsOn(id) : id \in ids \cap DOMAIN derived},
                              n - 1)

\* Every recorded Derived dependency points to a stored node, and no stored
\* node reaches itself along recorded dependencies.
Acyclic ==
  \A id \in DOMAIN derived :
    /\ DependsOn(id) \subseteq DOMAIN derived
    /\ id \notin ReachableFrom(DependsOn(id), Cardinality(DOMAIN derived))

\* C15: resolve runs to completion.  Over computations whose inner_fn calls
\* terminate, every resolve call returns, with a value or with the failure;
\* recorded dependencies point to stored nodes only and the stored
\* dependency graph has no cycle, so the verification walk is finite.
C15_RunsToCompletion ==
  /\ [](Acyclic)
  /\ (workers[1].pc = "running") ~> (workers[1].pc = "done")

\* forth was stored calling back; after A changed and B was written, back is
\* stored calling forth, and a resolve of back has verified forth and
\* returned without running anything.
C15_Witness ==
  /\ workers[1].pc = "done" /\ workers[1].id = Back /\ ~workers[1].ran
  /\ Forth \in DOMAIN derived /\ Back \in DOMAIN derived
  /\ DependsOn(Back) = {Forth}
  /\ derived[Forth].time_updated < derived[Forth].time_verified
  /\ derived[Back].time_updated < epoch /\ derived[Back].time_verified = epoch

C17_TimesOrdered ==
  \A id \in DOMAIN derived :
    /\ derived[id].time_updated <= derived[id].time_verified
    /\ derived[id].time_verified <= epoch
    /\ \A value \in 0..(MaxValue + 2) :
         LET other == DerivedNode(epoch, epoch, <<>>, derived[id].inner_fn, value)
             u == update(derived[id], other).node
         IN u.time_updated <= u.time_verified /\ u.time_verified <= epoch

\* Both threads re-executed add_a(1) after A was rewritten with the value it
\* had: both updates took the unchanged branch, and time_updated stays
\* behind time_verified.
C17_Witness ==
  /\ \A t \in Threads :
       /\ workers[t].pc = "done" /\ workers[t].id = D1 /\ workers[t].ran
       /\ ~workers[t].panicked /\ workers[t].did = NotRecalculated
  /\ derived[D1].time_updated < derived[D1].time_verified
  /\ derived[D1].time_verified = epoch

\* C18: DerivedNode::update(new).  For every stored node and every fresh node
\* of the current epoch: dependencies and time_verified become the new
\* node's; when the new value is unequal, value is replaced, time_updated
\* becomes the current epoch and update returns true; when it is equal,
\* value and time_updated stay and update returns false.  And so for every
\* stored node that a resolve re-executed: its DidRecalculate is update's
\* answer.
C18_Update ==
  /\ \A id \in DOMAIN derived, value \in 0..(MaxValue + 2) :
       \A dependencies \in {<<>>, derived[id].dependencies,
                            <<Dependency(Source("A"), epoch)>>} :
         LET self == derived[id]
             new == DerivedNode(epoch, epoch, dependencies, self.inner_fn, value)
             u == update(self, new)
         IN /\ u.node.dependencies = new.dependencies
            /\ u.node.time_verified = new.time_verified
            /\ u.node.inner_fn = self.inner_fn
            /\ value # self.value =>
                 /\ u.changed
                 /\ u.node.value = value
                 /\ u.node.time_updated = epoch
            /\ value = self.value =>
                 /\ ~u.changed
                 /\ u.node.value = self.value
                 /\ u.node.time_updated = self.time_updated
  /\ last.op = "resolve" =>
       \A id \in DOMAIN last.pre.derived :
         (Ran(last.trace, id) /\ Returned(last.trace, id)) =>
           /\ derived[id].time_verified = epoch
           /\ \A i \in 1..Len(derived[id].dependencies) :
                Fresh(derived[id].dependencies[i])
           /\ IF derived[id].value # PreNode(id).value
                THEN /\ derived[id].time_updated = epoch
                     /\ FirstRet(last.trace, id)[3] = Recalculated
                ELSE /\ derived[id].time_updated = PreNode(id).time_updated
                     /\ FirstRet(last.trace, id)[3] = NotRecalculated

\* One resolve re-executes three stored nodes: times_d1(0) to an equal value
\* (time_updated kept), add_a(1) and plus_div_b(1) to unequal ones
\* (time_updated bumped).
C18_Witness ==
  /\ last.op = "resolve" /\ last.id = D3
  /\ Existed(D1) /\ Existed(D2) /\ Existed(D3)
  /\ Ran(last.trace, D1) /\ Ran(last.trace, D2) /\ Ran(last.trace, D3)
  /\ Returned(last.trace, D3)
  /\ derived[D1].value # PreNode(D1).value /\ derived[D1].time_updated = epoch
  /\ derived[D2].value = PreNode(D2).value /\ derived[D2].time_updated < epoch
  /\ derived[D3].value # PreNode(D3).value /\ derived[D3].time_updated = epoch

\* C19: the verified-unchanged path.  When resolve enters a stored node of
\* an earlier epoch and none of its recorded dependencies is stale, the
\* node's inner_fn is not run, every return of the node in that resolve
\* reports NotRecalculated, and the stored node differs from the one before
\* in time_verified alone, which is the current epoch: value, time_updated
\* and the dependency list with its snapshots are as they were.
C19_VerifiedUnchanged ==
  last.op = "resolve" =>
    \A id \in DOMAIN last.pre.derived :
      (/\ Entered(last.trace, id)
       /\ PreNode(id).time_verified < epoch
       /\ \A i \in 1..Len(PreNode(id).dependencies) :
            ~StaleDependency(PreNode(id).dependencies[i])) =>
        /\ ~Ran(last.trace, id)
        /\ Returned(last.trace, id)
        /\ \A i \in 1..Len(last.trace) :
             IsEvent(last.trace, i, "ret", id) => last.trace[i][3] = NotRecalculated
        /\ derived[id] = [PreNode(id) EXCEPT !.time_verified = epoch]
        /\ derived[id].time_verified # PreNode(id).time_verified

\* plus_div_b(1), stored in an earlier epoch with three recorded
\* dependencies, and times_d1(0) below it are both confirmed without running:
\* each keeps value, time_updated and dependency list, and is verified now.
C19_Witness ==
  /\ last.op = "resolve" /\ last.id = D3 /\ ~last.panicked
  /\ Existed(D2) /\ Existed(D3)
  /\ Len(PreNode(D3).dependencies) = 3
  /\ ~Ran(last.trace, D3) /\ ~Ran(last.trace, D2)
  /\ \A id \in {D2, D3} :
       /\ PreNode(id).time_verified < epoch
       /\ derived[id].time_verified = epoch
       /\ derived[id].time_updated < epoch
       /\ derived[id].dependencies = PreNode(id).dependencies
       /\ derived[id].value = PreNode(id).value

\* The resolve calls made directly by the activation of a node that was
\* entered at event i, among the events between i and j: the enter events
\* there that are inside no other call begun after i.
Depth(tr, i, k) ==
  Cardinality({m \in (i + 1)..(k - 1) : tr[m][1] = "enter"})
    - Cardinality({m \in (i + 1)..(k - 1) : tr[m][1] = "ret"})

DirectCalls(tr, i, j) ==
  LET at == SelectSeq([k \in 1..Len(tr) |-> k],
                      LAMBDA k : /\ i < k /\ k < j
                                 /\ tr[k][1] = "enter"
                                 /\ Depth(tr, i, k) = 0)
  IN [n \in 1..Len(at) |-> tr[at[n]][2]]

\* The ids of the Derived dependencies of a list, in the list's order.
DerivedIds(deps) ==
  LET ds == SelectSeq(deps, LAMBDA dep : dep.node_to.kind = "Derived")
  IN [n \in 1..Len(ds) |-> ds[n].node_to.id]

\* The index of the first stale dependency of a list, or one past its end.
FirstStale(deps) ==
  LET stale == {n \in 1..Len(deps) : StaleDependency(deps[n])}
  IN IF stale = {} THEN Len(deps) + 1
     ELSE CHOOSE n \in stale : \A m \in stale : n <= m

FirstEvent(tr, tags, id, from) ==
  CHOOSE k \in (from + 1)..Len(tr) :
    /\ tr[k][1] \in tags /\ tr[k][2] = id
    /\ \A m \in (from + 1)..(k - 1) : ~(tr[m][1] \in tags /\ tr[m][2] = id)

\* C20: the verification walk.  When resolve enters a stored node of an
\* earlier epoch, the resolve calls it makes before it either re-executes or
\* returns are those of its recorded Derived dependencies, in recorded
\* order, up to and including the first stale dependency and no further; it
\* re-executes exactly when there is a stale one; and the resolve calls made
\* after that are those of the re-executed inner_fn, that is, the Derived
\* dependencies of the list it records anew.
C20_WalkStopsAtFirstStale ==
  last.op = "resolve" =>
    \A id \in DOMAIN last.pre.derived :
      (/\ PreNode(id).time_verified < epoch
       /\ Entered(last.trace, id)
       /\ Ran(last.trace, id) \/ Returned(last.trace, id)) =>
        LET tr == last.trace
            i == FirstEvent(tr, {"enter"}, id, 0)
            j == FirstEvent(tr, {"run", "ret"}, id, i)
            deps == PreNode(id).dependencies
            n == FirstStale(deps)
            walked == SubSeq(deps, 1, IF n > Len(deps) THEN Len(deps) ELSE n)
        IN /\ DirectCalls(tr, i, j) = DerivedIds(walked)
           /\ (tr[j][1] = "run") <=> (n <= Len(deps))
           /\ (tr[j][1] = "run" /\ Returned(tr, id)) =>
                DirectCalls(tr, j, FirstEvent(tr, {"ret"}, id, j))
                  = DerivedIds(derived[id].dependencies)

\* plus_div_b(1) recorded times_d1(0), B, add_a(1); B was written, to 1:
\* the walk resolves times_d1(0), finds B stale and stops, plus_div_b is
\* re-executed, and add_a(1) is resolved by plus_div_b neither in the walk
\* nor in the re-execution, which records two dependencies.
C20_Witness ==
  /\ last.op = "resolve" /\ last.id = D3 /\ ~last.panicked /\ Existed(D3)
  /\ PreNode(D3).time_verified < epoch
  /\ DerivedIds(PreNode(D3).dependencies) = <<D2, D1>>
  /\ FirstStale(PreNode(D3).dependencies) = 2
  /\ Ran(last.trace, D3)
  /\ DirectCalls(last.trace, 1, FirstEvent(last.trace, {"run"}, D3, 1)) = <<D2>>
  /\ DirectCalls(last.trace, FirstEvent(last.trace, {"run"}, D3, 1),
                 Len(last.trace)) = <<D2>>
  /\ Len(derived[D3].dependencies) = 2

\* The staleness criterion on a recorded dependency, read in the state
\* after the resolve: time_updated of the node referred to differs from the
\* snapshot.
DiffersFromSnapshot(dep) ==
  IF dep.node_to.kind = "Source"
    THEN sources[dep.node_to.key].time_updated # dep.time_verified_or_updated
    ELSE derived[dep.node_to.id].time_updated # dep.time_verified_or_updated

\* C21: the staleness criterion.  A stored node of an earlier epoch that a
\* resolve enters is re-executed exactly when one of its recorded
\* dependencies refers to a Source whose time_updated differs from the
\* snapshot, or to a Derived node whose time_updated, once resolved, differs
\* from it.  A Derived dependency whose time_verified moved, or whose
\* inner_fn ran again, with time_updated as recorded does not count.
C21_StalenessCriterion ==
  last.op = "resolve" =>
    \A id \in DOMAIN last.pre.derived :
      (/\ PreNode(id).time_verified < epoch
       /\ Entered(last.trace, id)
       /\ Ran(last.trace, id) \/ Returned(last.trace, id)) =>
        LET deps == PreNode(id).dependencies
        IN /\ Ran(last.trace, id) <=>
                \E n \in 1..Len(deps) : DiffersFromSnapshot(deps[n])
           /\ (\A n \in 1..Len(deps) :
                 /\ deps[n].node_to.kind = "Source" => ~DiffersFromSnapshot(deps[n])
                 /\ deps[n].node_to.kind = "Derived" =>
                      /\ deps[n].node_to.id \in DOMAIN last.pre.derived
                      /\ derived[deps[n].node_to.id].time_updated
                           = PreNode(deps[n].node_to.id).time_updated
                      /\ PreNode(deps[n].node_to.id).time_updated
                           = deps[n].time_verified_or_updated)
                => ~Ran(last.trace, id)

\* times_d1(0) recorded add_a(1); add_a(1) is re-executed to an equal value,
\* so its time_verified is the current epoch and no longer the snapshot,
\* while its time_updated is: times_d1(0) is not re-executed.
C21_Witness ==
  /\ last.op = "resolve" /\ last.id = D2 /\ ~last.panicked
  /\ Existed(D1) /\ Existed(D2)
  /\ PreNode(D2).time_verified < epoch
  /\ Ran(last.trace, D1) /\ ~Ran(last.trace, D2)
  /\ \E n \in 1..Len(PreNode(D2).dependencies) :
       LET dep == PreNode(D2).dependencies[n]
       IN /\ dep.node_to = Derived(D1)
          /\ derived[D1].time_verified # dep.time_verified_or_updated
          /\ derived[D1].time_verified # PreNode(D1).time_verified
          /\ derived[D1].time_updated = dep.time_verified_or_updated

\* The dependencies that the execution of inner_fn begun at event j and
\* ended at event r asked for directly: its read_source and resolve calls
\* that are inside no other call begun after j, in order, each with the
\* time_updated of the node referred to.
DirectDependencies(tr, j, r) ==
  LET at == SelectSeq([k \in 1..Len(tr) |-> k],
                      LAMBDA k : /\ j < k /\ k < r
                                 /\ tr[k][1] \in {"read", "enter"}
                                 /\ Depth(tr, j, k) = 0)
  IN [n \in 1..Len(at) |->
        IF tr[at[n]][1] = "read"
          THEN Dependency(Source(tr[at[n]][2]), sources[tr[at[n]][2]].time_updated)
          ELSE Dependency(Derived(tr[at[n]][2]), derived[tr[at[n]][2]].time_updated)]

\* C22: dependency recording.  After a resolve in which the inner_fn of a
\* node ran and returned, stored before or not, the node's stored
\* dependency list is the sequence of the read_source and resolve calls
\* that execution made directly, in order, each Source entry with the
\* source's time_updated: nothing read inside a nested resolve, nothing of
\* the list stored before, nothing read after the return.
C22_DependenciesRecorded ==
  last.op = "resolve" =>
    \A id \in DOMAIN derived :
      (Ran(last.trace, id) /\ Returned(last.trace, id)) =>
        LET tr == last.trace
            j == FirstEvent(tr, {"run"}, id, 0)
            r == FirstEvent(tr, {"ret"}, id, j)
        IN /\ derived[id].dependencies = DirectDependencies(tr, j, r)
           /\ \A k \in (j + 1)..Len(tr) : ~IsEvent(tr, k, "run", id)

\* A changed: add_a(1) reads A inside the resolve of times_d1(0) and again
\* directly under plus_div_b(1), which is re-executed; the list stored for
\* plus_div_b(1) is times_d1(0), B, add_a(1) with a new snapshot, and has no
\* entry for A.
C22_Witness ==
  /\ last.op = "resolve" /\ last.id = D3 /\ ~last.panicked /\ Existed(D3)
  /\ Ran(last.trace, D1) /\ Ran(last.trace, D3)
  /\ \E k \in 1..Len(last.trace) : IsEvent(last.trace, k, "read", "A")
  /\ [n \in 1..Len(derived[D3].dependencies) |-> derived[D3].dependencies[n].node_to]
       = <<Derived(D2), Source("B"), Derived(D1)>>
  /\ Len(PreNode(D3).dependencies) = 3
  /\ derived[D3].dependencies # PreNode(D3).dependencies

\* The stored nodes reached from id along recorded Derived dependencies, id
\* included.
Closure(id) == ReachableFrom({id}, Cardinality(DOMAIN derived))

\* C23: post-condition of resolve.  When resolve(id) has returned normally,
\* the node of id and every Derived node reached from it along stored
\* dependencies are stored with time_verified equal to the current epoch,
\* and each Dependency they record holds the current time_updated of the
\* node it refers to.
C23_ResolvePostCondition ==
  (last.op = "resolve" /\ ~last.panicked) =>
    /\ last.id \in DOMAIN derived
    /\ \A id \in Closure(last.id) :
         /\ id \in DOMAIN derived
         /\ derived[id].time_verified = epoch
         /\ \A n \in 1..Len(derived[id].dependencies) :
              Fresh(derived[id].dependencies[n])

\* B was rewritten: plus_div_b(1) is re-executed while times_d1(0) and
\* add_a(1) below it are only verified; all three, stored in an earlier
\* epoch, are verified in the current one.
C23_Witness ==
  /\ last.op = "resolve" /\ last.id = D3 /\ ~last.panicked
  /\ Existed(D1) /\ Existed(D2) /\ Existed(D3)
  /\ Closure(D3) = {D1, D2, D3}
  /\ Ran(last.trace, D3) /\ ~Ran(last.trace, D2) /\ ~Ran(last.trace, D1)
  /\ \A id \in {D1, D2, D3} :
       PreNode(id).time_verified < epoch /\ derived[id].time_verified = epoch

\* The times of every stored node after a step are no earlier than before it.
TimesKept ==
  \A id \in DOMAIN derived :
    /\ id \in DOMAIN derived'
    /\ derived'[id].time_verified >= derived[id].time_verified
    /\ derived'[id].time_updated >= derived[id].time_updated

\* update applied to a stored node with a node computed by a resolve that
\* read the epoch clock at e lowers neither time.
UpdateKeepsTimes(e) ==
  \A id \in DOMAIN derived, value \in 0..(MaxValue + 2) :
    LET self == derived[id]
        u == update(self, DerivedNode(e, e, self.dependencies, self.inner_fn, value))
    IN /\ u.node.time_verified >= self.time_verified
       /\ u.node.time_updated >= self.time_updated

MaxFields == 2

\* The names a definition can have (String is a built-in scalar), the field
\* names and the type annotations of fields.
DefinitionNames == {"A", "B", "String"}
FieldNames == {"id", "x", "__typename"}

GraphQLTypeAnnotation(non_null, name) == [non_null |-> non_null, name |-> name]

GraphQLFieldDefinition(name, type_) == [name |-> name, type_ |-> type_]

\* The fields a definition can declare: id of type ID!, ID or Int!, and x
\* and __typename of type Int!.
FieldDefinitions ==
  {GraphQLFieldDefinition("id", GraphQLTypeAnnotation(TRUE, ID_GRAPHQL_TYPE)),
   GraphQLFieldDefinition("id", GraphQLTypeAnnotation(FALSE, ID_GRAPHQL_TYPE)),
   GraphQLFieldDefinition("id", GraphQLTypeAnnotation(TRUE, "Int")),
   GraphQLFieldDefinition("x", GraphQLTypeAnnotation(TRUE, "Int")),
   GraphQLFieldDefinition("__typename", GraphQLTypeAnnotation(TRUE, "Int"))}

FieldLists == UNION {[1..n -> FieldDefinitions] : n \in 0..MaxFields}

\* options.on_invalid_id_type: whether an invalid id type is an error.
OptionalValidationLevels == {"Ignore", "Error"}

Ok(value) == [ok |-> TRUE, error |-> "none", value |-> value]
Err(error) == [ok |-> FALSE, error |-> error, value |-> <<>>]

\* on_invalid_id_type.on_failure(|| error)
on_failure(level, error) == IF level = "Error" THEN Err(error) ELSE Ok(<<>>)

\* The named type inside a non-null annotation, if the annotation is one.
inner_non_null_named_type(type_) ==
  IF type_.non_null THEN Some(type_.name) ELSE None

IsographObjectTypeDefinition(name, interfaces, fields) ==
  [name |-> name, interfaces |-> interfaces, fields |-> fields]

SchemaServerField(name, id, type_name, parent_type_id, is_discriminator) ==
  [name |-> name, id |-> id, type_name |-> type_name,
   parent_type_id |-> parent_type_id, is_discriminator |-> is_discriminator]

SchemaObject(name, id, encountered_fields, id_field, concrete_type) ==
  [name |-> name, id |-> id, encountered_fields |-> encountered_fields,
   id_field |-> id_field, concrete_type |-> concrete_type]

\* set_and_validate_id_field: the id field is set, then its type is
\* checked.  checked tells whether debug_assert!(id_field.is_none()) held.
set_and_validate_id_field(id_field, current_field_id, field, parent_type_name, options) ==
  LET type_ == inner_non_null_named_type(field.type_)
      invalid == on_failure(options, "IdFieldMustBeNonNullIdType")
      result == IF type_.some /\ type_.value = ID_GRAPHQL_TYPE THEN Ok(<<>>)
                ELSE invalid
  IN [id_field |-> Some(current_field_id), checked |-> ~id_field.some,
      ok |-> result.ok, error |-> result.error]

\* What get_field_objects_ids_and_names has built so far, with the number of
\* calls of set_and_validate_id_field and whether its assertion failed.
FieldObjectIdsEtc ==
  [unvalidated_schema_fields |-> <<>>, encountered_fields |-> <<>>,
   server_field_ids |-> <<>>, id_field |-> None, error |-> "none",
   id_field_calls |-> 0, assertion_failed |-> FALSE]

\* The loop body for one field, once its name is known to be new: the id
\* field is set and validated, then the field is pushed.
push_new_field(acc, next_server_field_id, field, parent_type_id, parent_type_name, may_have_field_id, options) ==
  LET is_id == may_have_field_id /\ field.name = "id"
      set == set_and_validate_id_field(acc.id_field, next_server_field_id, field,
                                       parent_type_name, options)
      called == IF is_id
                  THEN [acc EXCEPT !.id_field = set.id_field,
                                   !.id_field_calls = @ + 1,
                                   !.assertion_failed = @ \/ ~set.checked]
                  ELSE acc
  IN IF is_id /\ ~set.ok THEN [called EXCEPT !.error = set.error]
     ELSE [called EXCEPT
             !.unvalidated_schema_fields =
               Append(@, SchemaServerField(field.name, next_server_field_id,
                                           field.type_, parent_type_id, FALSE)),
             !.server_field_ids = Append(@, next_server_field_id)]

\* The loop body that lets a repeated field name replace the earlier entry.
enumerate_new_field_replace_duplicate(acc, current_field_index, field, next_field_id, parent_type_id, parent_type_name, may_have_field_id, options) ==
  LET next_server_field_id == next_field_id + current_field_index
      encountered == (field.name :> next_server_field_id) @@ acc.encountered_fields
  IN push_new_field([acc EXCEPT !.encountered_fields = encountered],
                    next_server_field_id, field, parent_type_id,
                    parent_type_name, may_have_field_id, options)

\* The loop body of get_field_objects_ids_and_names for the field at
\* current_field_index: a name met before is DuplicateField.
enumerate_new_field(acc, current_field_index, field, next_field_id, parent_type_id, parent_type_name, may_have_field_id, options) ==
  LET next_server_field_id == next_field_id + current_field_index
      encountered == (field.name :> next_server_field_id) @@ acc.encountered_fields
  IN IF field.name \in DOMAIN acc.encountered_fields
       THEN [acc EXCEPT !.encountered_fields = encountered,
                        !.error = "DuplicateField"]
     ELSE push_new_field([acc EXCEPT !.encountered_fields = encountered],
                         next_server_field_id, field, parent_type_id,
                         parent_type_name, may_have_field_id, options)

RECURSIVE for_new_fields(_, _, _, _, _, _, _, _)
\* for (current_field_index, field) in new_fields.into_iter().enumerate(),
\* left at the first error.
for_new_fields(acc, current_field_index, new_fields, next_field_id, parent_type_id, parent_type_name, may_have_field_id, options) ==
  IF current_field_index >= Len(new_fields) \/ acc.error # "none" THEN acc
  ELSE for_new_fields(
         enumerate_new_field(acc, current_field_index,
                             new_fields[current_field_index + 1], next_field_id,
                             parent_type_id, parent_type_name,
                             may_have_field_id, options),
         current_field_index + 1, new_fields, next_field_id,
         parent_type_id, parent_type_name, may_have_field_id, options)

\* The end of get_field_objects_ids_and_names: the generated __typename
\* field takes the id after the declared fields'; a declared field of
\* that name is TypenameCannotBeDefined.
push_typename_field(looped, next_field_id, parent_type_id, typename_type) ==
  LET typename_field_id == next_field_id + Len(looped.server_field_ids)
      typename == SchemaServerField("__typename", typename_field_id,
                                    typename_type, parent_type_id, TRUE)
  IN IF looped.error # "none" THEN looped
     ELSE [looped EXCEPT
             !.server_field_ids = Append(@, typename_field_id),
             !.unvalidated_schema_fields = Append(@, typename),
             !.encountered_fields = ("__typename" :> typename_field_id) @@ @,
             !.error = IF "__typename" \in DOMAIN looped.encountered_fields
                         THEN "TypenameCannotBeDefined" ELSE "none"]

\* get_field_objects_ids_and_names: the declared fields with consecutive
\* ids from next_field_id, then the generated __typename field.
get_field_objects_ids_and_names(new_fields, next_field_id, parent_type_id, parent_type_name, typename_type, may_have_field_id, options) ==
  push_typename_field(
    for_new_fields(FieldObjectIdsEtc, 0, new_fields, next_field_id,
                   parent_type_id, parent_type_name, may_have_field_id,
                   options),
    next_field_id, parent_type_id, typename_type)

\* get_typename_type: the non-null annotation of the String scalar's name.
get_typename_type(string_type_for_typename) ==
  GraphQLTypeAnnotation(TRUE, string_type_for_typename)

\* The Entry::Vacant arm that pushes the object before its fields are
\* checked.
entry_vacant_push_first(schema, name, next_object_id, concrete_type, etc) ==
  IF etc.error # "none"
    THEN [schema |-> [schema EXCEPT !.server_objects =
                       Append(@, SchemaObject(name, next_object_id, <<>>,
                                              None, concrete_type))], result |-> Err(etc.error),
          id_field_calls |-> etc.id_field_calls,
          assertion_failed |-> etc.assertion_failed]
  ELSE [schema |->
          [schema EXCEPT
             !.server_objects =
               Append(@, SchemaObject(name, next_object_id,
                                      etc.encountered_fields, etc.id_field,
                                      concrete_type)),
             !.server_fields = @ \o etc.unvalidated_schema_fields,
             !.defined_types = (name :> Object(next_object_id)) @@ @],
        result |-> Ok([object_id |-> next_object_id]),
        id_field_calls |-> etc.id_field_calls,
        assertion_failed |-> etc.assertion_failed]

\* The Entry::Vacant arm of process_object_type_definition, given what
\* get_field_objects_ids_and_names returned: its error leaves the schema
\* as it was; otherwise the object is pushed with the next object id, its
\* fields are appended to server_fields and its name is registered.
entry_vacant(schema, name, next_object_id, concrete_type, etc) ==
  IF etc.error # "none"
    THEN [schema |-> schema, result |-> Err(etc.error),
          id_field_calls |-> etc.id_field_calls,
          assertion_failed |-> etc.assertion_failed]
  ELSE [schema |->
          [schema EXCEPT
             !.server_objects =
               Append(@, SchemaObject(name, next_object_id,
                                      etc.encountered_fields, etc.id_field,
                                      concrete_type)),
             !.server_fields = @ \o etc.unvalidated_schema_fields,
             !.defined_types = (name :> Object(next_object_id)) @@ @],
        result |-> Ok([object_id |-> next_object_id]),
        id_field_calls |-> etc.id_field_calls,
        assertion_failed |-> etc.assertion_failed]

\* process_object_type_definition that numbers each object's fields from 0.
process_object_type_definition_field_ids_from_zero(schema, object_type_definition, may_have_id_field, options, concrete_type) ==
  LET next_object_id == Len(schema.server_objects)
      string_type_for_typename ==
        schema.server_scalars[schema.string_type_id + 1].name
      name == object_type_definition.name
  IN IF name \in DOMAIN schema.defined_types
       THEN [schema |-> schema, result |-> Err("DuplicateTypeDefinition"),
             id_field_calls |-> 0, assertion_failed |-> FALSE]
     ELSE entry_vacant(
            schema, name, next_object_id, concrete_type,
            get_field_objects_ids_and_names(
              object_type_definition.fields, 0,
              next_object_id, name, get_typename_type(string_type_for_typename),
              may_have_id_field, options))

\* process_object_type_definition: an error for a name already defined
\* (Entry::Occupied); otherwise the Entry::Vacant arm on the fields.
process_object_type_definition(schema, object_type_definition, may_have_id_field, options, concrete_type) ==
  LET next_object_id == Len(schema.server_objects)
      string_type_for_typename ==
        schema.server_scalars[schema.string_type_id + 1].name
      name == object_type_definition.name
  IN IF name \in DOMAIN schema.defined_types
       THEN [schema |-> schema, result |-> Err("DuplicateTypeDefinition"),
             id_field_calls |-> 0, assertion_failed |-> FALSE]
     ELSE entry_vacant(
            schema, name, next_object_id, concrete_type,
            get_field_objects_ids_and_names(
              object_type_definition.fields, Len(schema.server_fields),
              next_object_id, name, get_typename_type(string_type_for_typename),
              may_have_id_field, options))

\* process_scalar_definition that registers the name whether or not it is
\* defined.
process_scalar_definition_overwrite(schema, scalar_type_definition) ==
  LET next_scalar_id == Len(schema.server_scalars)
      name == scalar_type_definition.name
  IN [schema |->
        [schema EXCEPT
           !.server_scalars = Append(@, SchemaScalar(name, next_scalar_id)),
           !.defined_types = (name :> Scalar(next_scalar_id)) @@ @],
      result |-> Ok(<<>>)]

\* process_scalar_definition: an error for a name already defined;
\* otherwise the scalar is pushed with the next scalar id and registered.
process_scalar_definition(schema, scalar_type_definition) ==
  LET next_scalar_id == Len(schema.server_scalars)
      name == scalar_type_definition.name
  IN IF name \in DOMAIN schema.defined_types
       THEN [schema |-> schema, result |-> Err("DuplicateTypeDefinition")]
     ELSE [schema |->
             [schema EXCEPT
                !.server_scalars = Append(@, SchemaScalar(name, next_scalar_id)),
                !.defined_types = (name :> Scalar(next_scalar_id)) @@ @],
           result |-> Ok(<<>>)]

GraphQLScalarTypeDefinition(name) == [name |-> name]

\* A call of process_object_type_definition.
ProcessObjectTypeDefinition(name, fields, may_have_id_field, options) ==
  /\ \E call \in {process_object_type_definition(
                      unvalidated_schema,
                      IsographObjectTypeDefinition(name, <<>>, fields),
                      may_have_id_field, options, Some(name))} :
        /\ unvalidated_schema' = call.schema
        /\ outcome' = [NoCall EXCEPT
             !.op = "process_object_type_definition",
             !.ok = call.result.ok, !.error = call.result.error,
             !.name = name,
             !.fields = IF call.result.ok THEN fields ELSE <<>>,
             !.pre = unvalidated_schema,
             !.id_field_calls = call.id_field_calls,
             !.assertion_failed = call.assertion_failed]
  /\ UNCHANGED <<engine_vars, arena_vars, worker_vars, refetch_vars>>

\* A call of process_scalar_definition.
ProcessScalarDefinition(name) ==
  /\ \E call \in {process_scalar_definition(
                      unvalidated_schema, GraphQLScalarTypeDefinition(name))} :
        /\ unvalidated_schema' = call.schema
        /\ outcome' = [NoCall EXCEPT
             !.op = "process_scalar_definition",
             !.ok = call.result.ok, !.error = call.result.error,
             !.name = name, !.pre = unvalidated_schema]
  /\ UNCHANGED <<engine_vars, arena_vars, worker_vars, refetch_vars>>

SchemaNext ==
  \/ \E name \in DefinitionNames, fields \in FieldLists,
        may_have_id_field \in BOOLEAN, options \in OptionalValidationLevels :
       ProcessObjectTypeDefinition(name, fields, may_have_id_field, options)
  \/ \E name \in DefinitionNames : ProcessScalarDefinition(name)

SpecSchema == Init /\ [][SchemaNext]_vars

\* C25: the type registry.  After any calls of
\* process_object_type_definition and process_scalar_definition, failed
\* ones included: defined_types maps each name to Object(i) where
\* server_objects[i] has that name and id i, or to Scalar(j) where
\* server_scalars[j] has that name and id j; and every object and scalar
\* pushed has id equal to its index and is the one registered under its
\* name, so that no name is held by two of them.
C25_TypeRegistry ==
  LET s == unvalidated_schema
  IN /\ \A name \in DOMAIN s.defined_types :
          LET type == s.defined_types[name]
          IN IF type.kind = "Object"
               THEN /\ type.id < Len(s.server_objects)
                    /\ s.server_objects[type.id + 1].name = name
                    /\ s.server_objects[type.id + 1].id = type.id
               ELSE /\ type.id < Len(s.server_scalars)
                    /\ s.server_scalars[type.id + 1].name = name
                    /\ s.server_scalars[type.id + 1].id = type.id
     /\ \A i \in 1..Len(s.server_objects) :
          /\ s.server_objects[i].id = i - 1
          /\ s.server_objects[i].name \in DOMAIN s.defined_types
          /\ s.defined_types[s.server_objects[i].name] = Object(i - 1)
     /\ \A j \in 1..Len(s.server_scalars) :
          /\ s.server_scalars[j].id = j - 1
          /\ s.server_scalars[j].name \in DOMAIN s.defined_types
          /\ s.defined_types[s.server_scalars[j].name] = Scalar(j - 1)
     /\ Cardinality(DOMAIN s.defined_types)
          = Len(s.server_objects) + Len(s.server_scalars)

\* An object and a scalar were defined after the built-in scalars, and the
\* last call, a scalar definition under the object's name, failed.
C25_Witness ==
  /\ Len(unvalidated_schema.server_objects) = 1
  /\ Len(unvalidated_schema.server_scalars) = 3
  /\ outcome.op = "process_scalar_definition"
  /\ ~outcome.ok /\ outcome.error = "DuplicateTypeDefinition"
  /\ outcome.name = unvalidated_schema.server_objects[1].name

\* C26: process_object_type_definition is all-or-nothing.  When it returns
\* an error, which is DuplicateTypeDefinition, DuplicateField,
\* TypenameCannotBeDefined or IdFieldMustBeNonNullIdType, server_objects,
\* server_fields and defined_types are as they were before the call.
C26_AllOrNothing ==
  (outcome.op = "process_object_type_definition" /\ ~outcome.ok) =>
    /\ outcome.error \in {"DuplicateTypeDefinition", "DuplicateField",
                          "TypenameCannotBeDefined", "IdFieldMustBeNonNullIdType"}
    /\ unvalidated_schema.server_objects = outcome.pre.server_objects
    /\ unvalidated_schema.server_fields = outcome.pre.server_fields
    /\ unvalidated_schema.defined_types = outcome.pre.defined_types
    /\ unvalidated_schema = outcome.pre

\* A definition under a new name, after another object was defined, that
\* declares __typename: the error comes after its fields and the generated
\* one were built.
C26_Witness ==
  /\ outcome.op = "process_object_type_definition" /\ ~outcome.ok
  /\ outcome.error = "TypenameCannotBeDefined"
  /\ outcome.id_field_calls = 1
  /\ outcome.name \notin DOMAIN outcome.pre.defined_types
  /\ Len(outcome.pre.server_objects) = 1
  /\ Len(outcome.pre.server_fields) > 1

\* The fields of server_fields whose parent is the object with this id.
FieldsOf(object_id) ==
  SelectSeq(unvalidated_schema.server_fields,
            LAMBDA field : field.parent_type_id = object_id)

\* C27: server field ids.  Every entry of server_fields has id equal to its
\* index.  The fields of each object are consecutive, the last of them is
\* the one generated __typename field and the only discriminator, and the
\* object's encountered_fields maps the names of exactly these fields to
\* their ids; the fields before __typename of the object just defined are
\* its declared fields, in order.
C27_ServerFieldIds ==
  LET s == unvalidated_schema
  IN /\ \A i \in 1..Len(s.server_fields) : s.server_fields[i].id = i - 1
     /\ \A k \in 1..Len(s.server_objects) :
          LET object == s.server_objects[k]
              own == FieldsOf(object.id)
          IN /\ Len(own) >= 1
             /\ \A n \in 1..(Len(own) - 1) : own[n + 1].id = own[n].id + 1
             /\ own[Len(own)].name = "__typename"
             /\ \A n \in 1..Len(own) : own[n].is_discriminator <=> n = Len(own)
             /\ DOMAIN object.encountered_fields = {own[n].name : n \in 1..Len(own)}
             /\ Cardinality(DOMAIN object.encountered_fields) = Len(own)
             /\ \A n \in 1..Len(own) :
                  object.encountered_fields[own[n].name] = own[n].id
     /\ (outcome.op = "process_object_type_definition" /\ outcome.ok) =>
          LET own == FieldsOf(Len(s.server_objects) - 1)
          IN /\ Len(own) = Len(outcome.fields) + 1
             /\ \A n \in 1..Len(outcome.fields) :
                  /\ own[n].name = outcome.fields[n].name
                  /\ own[n].type_name = outcome.fields[n].type_

\* The second object defined declares two fields after a first object with
\* one: its fields have ids 2, 3 and 4, the last being __typename.
C27_Witness ==
  /\ outcome.op = "process_object_type_definition" /\ outcome.ok
  /\ Len(unvalidated_schema.server_objects) = 2
  /\ Len(outcome.fields) = 2
  /\ Len(outcome.pre.server_fields) = 2
  /\ Len(unvalidated_schema.server_fields) = 5
  /\ unvalidated_schema.server_objects[2].encountered_fields["__typename"] = 4

\* C28: the assertion of set_and_validate_id_field.  In every call of
\* process_object_type_definition, with whatever list of fields,
\* set_and_validate_id_field is called at most once and finds id_field
\* None: a second field named id is DuplicateField before it is reached.
C28_IdFieldAssertion ==
  outcome.op = "process_object_type_definition" =>
    /\ ~outcome.assertion_failed
    /\ outcome.id_field_calls <= 1
    /\ outcome.ok =>
         Cardinality({n \in 1..Len(outcome.fields) : outcome.fields[n].name = "id"}) <= 1

\* A definition with a repeated field name in which set_and_validate_id_field
\* was called: the call was the only one and the definition is
\* DuplicateField.
C28_Witness ==
  /\ outcome.op = "process_object_type_definition"
  /\ outcome.id_field_calls = 1
  /\ ~outcome.ok /\ outcome.error = "DuplicateField"

\* ------------------------------------------- processing a type system document
MaxDefinitions == 2
MaxRefinements == 2

\* The names a definition can refer to as an interface or a union member.
RefinementLists == UNION {[1..n -> DefinitionNames] : n \in 0..MaxRefinements}

\* The definitions of a document: objects with the interfaces they
\* implement, unions with their member types, interfaces and scalars.
GraphQLTypeSystemDefinitions ==
  [kind : {"ObjectTypeDefinition", "UnionTypeDefinition"},
   name : {"A", "B"}, refinements : RefinementLists]
    \cup [kind : {"InterfaceTypeDefinition"}, name : {"A", "B"},
          refinements : {<<>>}]
    \cup [kind : {"ScalarTypeDefinition"}, name : DefinitionNames,
          refinements : {<<>>}]

GraphQLTypeSystemDocuments ==
  UNION {[1..n -> GraphQLTypeSystemDefinitions] : n \in 0..MaxDefinitions}

\* map.entry(key).or_default().push(value)
entry_or_default_push(map, key, value) ==
  IF key \in DOMAIN map THEN [map EXCEPT ![key] = Append(@, value)]
  ELSE (key :> <<value>>) @@ map

TypeRefinementMaps(supertype_to_subtype_map, subtype_to_supertype_map) ==
  [supertype_to_subtype_map |-> supertype_to_subtype_map,
   subtype_to_supertype_map |-> subtype_to_supertype_map]

\* insert_into_type_refinement_maps that records the supertype side only.
insert_into_type_refinement_maps_one_way(supertype_name, subtype_name, maps) ==
  TypeRefinementMaps(
    entry_or_default_push(maps.supertype_to_subtype_map, supertype_name, subtype_name),
    maps.subtype_to_supertype_map)

\* insert_into_type_refinement_maps: the subtype is pushed under the
\* supertype in one map and the supertype under the subtype in the other.
insert_into_type_refinement_maps(supertype_name, subtype_name, maps) ==
  TypeRefinementMaps(
    entry_or_default_push(maps.supertype_to_subtype_map, supertype_name, subtype_name),
    entry_or_default_push(maps.subtype_to_supertype_map, subtype_name, supertype_name))

\* lookup_object_in_schema: the object id registered under a name.
lookup_object_in_schema(schema, unvalidated_type_name) ==
  IF unvalidated_type_name \notin DOMAIN schema.defined_types
    THEN Err("IsographObjectTypeNameNotDefined")
  ELSE IF schema.defined_types[unvalidated_type_name].kind = "Scalar"
    THEN Err("GenericObjectIsScalar")
  ELSE Ok(schema.defined_types[unvalidated_type_name].id)

RECURSIVE first_error(_, _, _)
\* The error of the first name of a list, from index n on, that is not an
\* object of the schema, or "none".
first_error(schema, names, n) ==
  IF n > Len(names) THEN "none"
  ELSE IF ~lookup_object_in_schema(schema, names[n]).ok
    THEN lookup_object_in_schema(schema, names[n]).error
  ELSE first_error(schema, names, n + 1)

\* validate_type_refinement_map: names are replaced by object ids, the key
\* of an entry first and then its values in order.  The entries of the
\* HashMap come in no particular order, so the error returned is that of
\* any entry that has one.
validate_type_refinement_map(schema, unvalidated_type_refinement_map) ==
  LET names == DOMAIN unvalidated_type_refinement_map
      error_of(key) ==
        first_error(schema, <<key>> \o unvalidated_type_refinement_map[key], 1)
      id_of(name) == lookup_object_in_schema(schema, name).value
      errors == {error_of(key) : key \in names} \ {"none"}
      key_ids == {id_of(key) : key \in names}
  IN [errors |-> errors,
      value |->
        IF errors # {} THEN <<>>
        ELSE [key_id \in key_ids |->
                LET key == CHOOSE key \in names : id_of(key) = key_id
                    values == unvalidated_type_refinement_map[key]
                IN [n \in 1..Len(values) |-> id_of(values[n])]]]

\* get_type_refinement_map: the supertype map is validated first.
get_type_refinement_map(schema, unvalidated_supertype_to_subtype_map, unvalidated_subtype_to_supertype_map) ==
  LET supertype_to_subtype_map ==
        validate_type_refinement_map(schema, unvalidated_supertype_to_subtype_map)
      subtype_to_supertype_map ==
        validate_type_refinement_map(schema, unvalidated_subtype_to_supertype_map)
  IN IF supertype_to_subtype_map.errors # {}
       THEN [errors |-> supertype_to_subtype_map.errors, value |-> <<>>]
     ELSE IF subtype_to_supertype_map.errors # {}
       THEN [errors |-> subtype_to_supertype_map.errors, value |-> <<>>]
     ELSE [errors |-> {},
           value |-> TypeRefinementMaps(supertype_to_subtype_map.value,
                                        subtype_to_supertype_map.value)]

RECURSIVE insert_each(_, _, _, _, _)
\* insert_into_type_refinement_maps for each name of a list, from index n:
\* the interfaces of an object (the object is the subtype) or the members
\* of a union (the union is the supertype).
insert_each(maps, name, refinements, n, name_is_subtype) ==
  IF n > Len(refinements) THEN maps
  ELSE insert_each(
         IF name_is_subtype
           THEN insert_into_type_refinement_maps(refinements[n], name, maps)
           ELSE insert_into_type_refinement_maps(name, refinements[n], maps),
         name, refinements, n + 1, name_is_subtype)

\* The definition call of a match arm: process_scalar_definition for a
\* scalar; process_object_type_definition for an object (with its
\* interfaces, its own name as concrete type), an interface and a union
\* (which may have no id field).
process_definition(schema, definition, options) ==
  IF definition.kind = "ScalarTypeDefinition"
    THEN process_scalar_definition(schema,
                                   GraphQLScalarTypeDefinition(definition.name))
  ELSE process_object_type_definition(
         schema,
         IsographObjectTypeDefinition(
           definition.name,
           IF definition.kind = "ObjectTypeDefinition"
             THEN definition.refinements ELSE <<>>,
           <<>>),
         definition.kind # "UnionTypeDefinition", options,
         IF definition.kind = "ObjectTypeDefinition"
           THEN Some(definition.name) ELSE None)

\* The refinement maps after a match arm: an object's interfaces are
\* inserted before it is defined, a union's members after it is.
refinements_after(maps, definition, call) ==
  CASE definition.kind = "ObjectTypeDefinition" ->
         insert_each(maps, definition.name, definition.refinements, 1, TRUE)
    [] definition.kind = "UnionTypeDefinition" /\ call.result.ok ->
         insert_each(maps, definition.name, definition.refinements, 1, FALSE)
    [] OTHER -> maps

\* What the loop carries after one definition.
after_definition(acc, definition, call) ==
  [schema |-> call.schema,
   maps |-> refinements_after(acc.maps, definition, call),
   error |-> call.result.error]

\* One definition of the document: the match arm of its kind.
process_type_system_definition(acc, definition, options) ==
  after_definition(acc, definition,
                   process_definition(acc.schema, definition, options))

RECURSIVE for_type_system_definitions(_, _, _, _)
\* for with_location in type_system_document.0, left at the first error.
for_type_system_definitions(acc, type_system_document, n, options) ==
  IF n > Len(type_system_document) \/ acc.error # "none" THEN acc
  ELSE for_type_system_definitions(
         process_type_system_definition(acc, type_system_document[n], options),
         type_system_document, n + 1, options)

\* The second pass: the refinement maps are validated against the schema
\* as it is after the last definition.
validate_after_loop(looped, type_refinement_map) ==
  IF looped.error # "none"
    THEN [schema |-> looped.schema, errors |-> {looped.error}, value |-> <<>>]
  ELSE [schema |-> looped.schema, errors |-> type_refinement_map.errors,
        value |-> type_refinement_map.value]

second_pass(looped) ==
  validate_after_loop(
    looped,
    get_type_refinement_map(looped.schema,
                            looped.maps.supertype_to_subtype_map,
                            looped.maps.subtype_to_supertype_map))

\* process_graphql_type_system_document: the definitions are processed in
\* order, then the refinement maps are validated.  No definition here is a
\* schema definition or is named Query or Mutation, so the root types are
\* all None and fetchable_types is not written.
process_graphql_type_system_document(schema, type_system_document, options) ==
  second_pass(
    for_type_system_definitions(
      [schema |-> schema, maps |-> TypeRefinementMaps(<<>>, <<>>),
       error |-> "none"],
      type_system_document, 1, options))

\* process_graphql_type_system_document called on the new schema.
ProcessGraphqlTypeSystemDocument(type_system_document) ==
  /\ unvalidated_schema = UnvalidatedGraphqlSchema_new
  /\ outcome = NoCall
  /\ \E call \in {process_graphql_type_system_document(
                      unvalidated_schema, type_system_document, "Error")} :
        /\ unvalidated_schema' = call.schema
        /\ \E error \in (IF call.errors = {} THEN {"none"} ELSE call.errors) :
             outcome' = [NoCall EXCEPT
               !.op = "process_graphql_type_system_document",
               !.ok = call.errors = {}, !.error = error,
               !.fields = type_system_document,
               !.value = call.value]
  /\ UNCHANGED <<engine_vars, arena_vars, worker_vars, refetch_vars>>

DocumentNext ==
  \E type_system_document \in GraphQLTypeSystemDocuments :
    ProcessGraphqlTypeSystemDocument(type_system_document)

SpecDocument == Init /\ [][DocumentNext]_vars

\* The number of times a value is listed under a key in a refinement map.
Listed(map, key, value) ==
  IF key \in DOMAIN map
    THEN Cardinality({n \in 1..Len(map[key]) : map[key][n] = value})
    ELSE 0

\* The number of times a document declares sub a subtype of super: as an
\* interface of the object sub, or as a member of the union super.
Declared(document, super, sub) ==
  LET declared(definition) ==
        Cardinality({m \in 1..Len(definition.refinements) :
          \/ /\ definition.kind = "ObjectTypeDefinition"
             /\ definition.name = sub /\ definition.refinements[m] = super
          \/ /\ definition.kind = "UnionTypeDefinition"
             /\ definition.name = super /\ definition.refinements[m] = sub})
      RECURSIVE sum(_)
      sum(n) == IF n = 0 THEN 0 ELSE declared(document[n]) + sum(n - 1)
  IN sum(Len(document))

\* The names a document refers to as interfaces or union members.
Referred(document) ==
  UNION {{document[n].refinements[m] : m \in 1..Len(document[n].refinements)} :
           n \in 1..Len(document)}

\* No definition of the document has a name defined already.
AllDefined(document) ==
  \A n \in 1..Len(document) :
    /\ document[n].name \notin DOMAIN UnvalidatedGraphqlSchema_new.defined_types
    /\ \A m \in 1..(n - 1) : document[m].name # document[n].name

IsObject(name) ==
  /\ name \in DOMAIN unvalidated_schema.defined_types
  /\ unvalidated_schema.defined_types[name].kind = "Object"

\* The refinement maps of a successful call are inverses of each other and
\* hold ids of defined objects, as many times as the document declares.
MapsAreInverses ==
  LET maps == outcome.value
      ids == 0..(Len(unvalidated_schema.server_objects) - 1)
      name_of(id) == unvalidated_schema.server_objects[id + 1].name
  IN /\ DOMAIN maps.supertype_to_subtype_map \subseteq ids
     /\ DOMAIN maps.subtype_to_supertype_map \subseteq ids
     /\ \A key \in DOMAIN maps.supertype_to_subtype_map :
          \A n \in 1..Len(maps.supertype_to_subtype_map[key]) :
            maps.supertype_to_subtype_map[key][n] \in ids
     /\ \A key \in DOMAIN maps.subtype_to_supertype_map :
          \A n \in 1..Len(maps.subtype_to_supertype_map[key]) :
            maps.subtype_to_supertype_map[key][n] \in ids
     /\ \A a \in ids, b \in ids :
          /\ Listed(maps.supertype_to_subtype_map, a, b)
               = Listed(maps.subtype_to_supertype_map, b, a)
          /\ Listed(maps.supertype_to_subtype_map, a, b)
               = Declared(outcome.fields, name_of(a), name_of(b))

\* C29 as stated: the refinement maps of a successful call are inverses of
\* each other over defined objects, and a document with a reference to a
\* name that is not an object defined before the reference, or to a scalar,
\* fails, whatever is defined later in the document.
C29_ForwardReferenceFails ==
  outcome.op = "process_graphql_type_system_document" =>
    /\ outcome.ok => MapsAreInverses
    /\ (\E n \in 1..Len(outcome.fields) :
          \E m \in 1..Len(outcome.fields[n].refinements) :
            \A k \in 1..n :
              \/ outcome.fields[k].name # outcome.fields[n].refinements[m]
              \/ outcome.fields[k].kind = "ScalarTypeDefinition")
         => ~outcome.ok

\* C29, as it holds: the refinement maps of a successful call are inverses
\* of each other, over ids of defined objects, with the multiplicities the
\* document declares; the call succeeds exactly when every definition does
\* and every name referred to is an object once the whole document has been
\* processed, wherever in the document it is defined; otherwise the error
\* is IsographObjectTypeNameNotDefined or GenericObjectIsScalar, for a name
\* that is undefined or a scalar at the end.
C29_RefinementMaps ==
  outcome.op = "process_graphql_type_system_document" =>
    /\ outcome.ok => MapsAreInverses
    /\ outcome.ok <=>
         /\ AllDefined(outcome.fields)
         /\ \A name \in Referred(outcome.fields) : IsObject(name)
    /\ (~outcome.ok /\ AllDefined(outcome.fields)) =>
         /\ outcome.error \in {"IsographObjectTypeNameNotDefined", "GenericObjectIsScalar"}
         /\ outcome.error = "IsographObjectTypeNameNotDefined" =>
              \E name \in Referred(outcome.fields) :
                name \notin DOMAIN unvalidated_schema.defined_types
         /\ outcome.error = "GenericObjectIsScalar" =>
              \E name \in Referred(outcome.fields) :
                /\ name \in DOMAIN unvalidated_schema.defined_types
                /\ ~IsObject(name)

\* An object implements, twice, an interface that the document defines after
\* it: the call succeeds, and each map lists the other type twice.
C29_Witness ==
  /\ outcome.op = "process_graphql_type_system_document" /\ outcome.ok
  /\ Len(outcome.fields) = 2
  /\ outcome.fields[1].kind = "ObjectTypeDefinition"
  /\ outcome.fields[2].kind = "InterfaceTypeDefinition"
  /\ outcome.fields[1].refinements = <<outcome.fields[2].name, outcome.fields[2].name>>
  /\ Listed(outcome.value.supertype_to_subtype_map, 1, 0) = 2
  /\ Listed(outcome.value.subtype_to_supertype_map, 0, 1) = 2

\* ---------------------------------------------------------------------
\* Refetch fields (isograph_compiler/src/refetch_fields.rs)
\* ---------------------------------------------------------------------

MaxObjects == 3

ObjectNames == <<"Query", "A", "B", "C">>

REFETCH_FIELD_NAME == "__refetch"

\* DefinitionLocation::Server and DefinitionLocation::Client.
Server(value) == [location |-> "Server", value |-> value]
Client(value) == [location |-> "Client", value |-> value]

ServerObjectEntity(name, id_field, available_selectables) ==
  [name |-> name, id_field |-> id_field,
   available_selectables |-> available_selectables]

ClientScalarSelectable(name, variant, type_name, parent_object_entity_id, root_object_entity_id) ==
  [name |-> name, variant |-> variant,
   type_and_field |-> [type_name |-> type_name, field_name |-> name],
   parent_object_entity_id |-> parent_object_entity_id,
   root_object_entity_id |-> root_object_entity_id,
   reader_selection_set |-> <<>>, refetch_strategy |-> None]

\* schema.query_id(): the first server object entity is the query type.
query_id(schema) == 0

\* What an object can look like before its refetch field is added: with or
\* without an id field, and with the name __refetch vacant, taken by a
\* client field or taken by a server field.
ObjectConfigs ==
  [has_id : BOOLEAN, refetch : {"Vacant", "Client", "Server"}]

ObjectConfigLists ==
  UNION {[1..n -> ObjectConfigs] : n \in 1..MaxObjects}

RECURSIVE SchemaOf(_)
\* The schema whose i-th server object entity is as the i-th config says.
SchemaOf(configs) ==
  IF configs = <<>> THEN Schema_new
  ELSE LET rest == SchemaOf(SubSeq(configs, 1, Len(configs) - 1))
           config == configs[Len(configs)]
           object_entity_id == Len(configs) - 1
           name == ObjectNames[Len(configs)]
           next_client_field_id == Len(rest.client_scalar_selectables)
           id_selectable ==
             IF config.has_id THEN "id" :> Server(Scalar(object_entity_id))
             ELSE <<>>
           refetch_selectable ==
             CASE config.refetch = "Vacant" -> <<>>
               [] config.refetch = "Client" ->
                    REFETCH_FIELD_NAME :> Client(Scalar(next_client_field_id))
               [] config.refetch = "Server" ->
                    REFETCH_FIELD_NAME
                      :> Server(Scalar(MaxObjects + object_entity_id))
       IN [server_object_entities |->
             Append(rest.server_object_entities,
                    ServerObjectEntity(
                      name,
                      IF config.has_id THEN Some(object_entity_id) ELSE None,
                      id_selectable @@ refetch_selectable)),
           client_scalar_selectables |->
             IF config.refetch = "Client"
             THEN Append(rest.client_scalar_selectables,
                         ClientScalarSelectable(REFETCH_FIELD_NAME,
                                                "UserWritten", name,
                                                object_entity_id, 0))
             ELSE rest.client_scalar_selectables]

Schemas == {SchemaOf(configs) : configs \in ObjectConfigLists}

\* add_refetch_field_to_object: [object, client_fields, result].
add_refetch_field_to_object(object_entity_id, object, client_fields, root_id) ==
  IF REFETCH_FIELD_NAME \in DOMAIN object.available_selectables
  THEN [object |-> object, client_fields |-> client_fields,
        result |-> Err("DuplicateRefetchField")]
  ELSE LET next_client_field_id == Len(client_fields)
       IN [object |->
             [object EXCEPT !.available_selectables =
                (REFETCH_FIELD_NAME :> Client(Scalar(next_client_field_id)))
                  @@ @],
           client_fields |->
             Append(client_fields,
                    ClientScalarSelectable(REFETCH_FIELD_NAME,
                                           "ImperativelyLoadedField",
                                           object.name, object_entity_id,
                                           root_id)),
           result |-> Ok([client_field_id |-> next_client_field_id,
                          refetch_strategy |-> "UseRefetchField"])]

\* One object of the loop: an object without an id field is Ok(None); an Ok
\* item goes to results and an error to errors, and the loop goes on.
refetch_one_object(acc, index) ==
  LET object == acc.schema.server_object_entities[index]
  IN IF ~object.id_field.some THEN acc
     ELSE LET added == add_refetch_field_to_object(
                         index - 1, object,
                         acc.schema.client_scalar_selectables,
                         query_id(acc.schema))
          IN [schema |->
                [server_object_entities |->
                   [acc.schema.server_object_entities EXCEPT
                      ![index] = added.object],
                 client_scalar_selectables |-> added.client_fields],
              results |->
                IF added.result.ok
                THEN Append(acc.results, added.result.value)
                ELSE acc.results,
              errors |->
                IF added.result.ok THEN acc.errors
                ELSE Append(acc.errors, added.result.error)]

RECURSIVE for_server_object_entities_fail_fast(_, _)
for_server_object_entities_fail_fast(acc, index) ==
  IF index > Len(acc.schema.server_object_entities) \/ acc.errors # <<>>
  THEN acc
  ELSE for_server_object_entities_fail_fast(refetch_one_object(acc, index),
                                            index + 1)

RECURSIVE for_server_object_entities(_, _)
\* for item in schema.server_entity_data.server_object_entities_and_ids_mut()
for_server_object_entities(acc, index) ==
  IF index > Len(acc.schema.server_object_entities) THEN acc
  ELSE for_server_object_entities(refetch_one_object(acc, index), index + 1)

\* add_refetch_fields_to_objects: [schema, result].
add_refetch_fields_to_objects(schema) ==
  LET acc == for_server_object_entities(
               [schema |-> schema, results |-> <<>>, errors |-> <<>>], 1)
  IN [schema |-> acc.schema,
      result |->
        IF acc.errors = <<>> THEN Ok(acc.results)
        ELSE [ok |-> FALSE, error |-> "MultipleErrors",
              value |-> acc.errors]]

AddRefetchFieldsToObjects ==
  /\ \E call \in {add_refetch_fields_to_objects(isograph_schema)} :
        /\ isograph_schema' = call.schema
        /\ refetched' = [called |-> TRUE, pre |-> isograph_schema,
                         result |-> call.result]
  /\ UNCHANGED <<engine_vars, arena_vars, worker_vars, unvalidated_schema,
                 outcome>>

InitRefetch ==
  /\ InitOutsideSchema
  /\ isograph_schema \in Schemas
  /\ refetched = NotRefetched

RefetchNext == AddRefetchFieldsToObjects

SpecRefetch == InitRefetch /\ [][RefetchNext]_vars

\* The objects of the schema a call started from that have an id field and
\* no __refetch selectable, and those that have an id field and a __refetch
\* selectable already.
Eligible(schema) ==
  {i \in 1..Len(schema.server_object_entities) :
     /\ schema.server_object_entities[i].id_field.some
     /\ REFETCH_FIELD_NAME \notin
          DOMAIN schema.server_object_entities[i].available_selectables}

Failing(schema) ==
  {i \in 1..Len(schema.server_object_entities) :
     /\ schema.server_object_entities[i].id_field.some
     /\ REFETCH_FIELD_NAME \in
          DOMAIN schema.server_object_entities[i].available_selectables}

\* C30: add_refetch_fields_to_objects is not fail-fast.  Every object with
\* an id field and no __refetch selectable gets exactly one client scalar
\* selectable appended, and its available_selectables maps __refetch to
\* the client scalar id that is that selectable's index, with
\* parent_object_entity_id the object's id and ids distinct across
\* objects, whether or not other objects fail; an object with an id field
\* that already has __refetch contributes DuplicateRefetchField and
\* appends nothing; every other object is left as it was.  The call
\* returns Ok with one item per processed object iff no object failed, and
\* otherwise MultipleErrors holding one error per failing object.
C30_NotFailFast ==
  refetched.called =>
    LET pre == refetched.pre
        post == isograph_schema
        before == Len(pre.client_scalar_selectables)
        after == Len(post.client_scalar_selectables)
        eligible == Eligible(pre)
        failing == Failing(pre)
        IdOf(i) ==
          post.server_object_entities[i]
            .available_selectables[REFETCH_FIELD_NAME].value.id
    IN /\ Len(post.server_object_entities) = Len(pre.server_object_entities)
       /\ after = before + Cardinality(eligible)
       /\ SubSeq(post.client_scalar_selectables, 1, before)
            = pre.client_scalar_selectables
       /\ \A i \in eligible :
            /\ post.server_object_entities[i].available_selectables
                 = (REFETCH_FIELD_NAME :> Client(Scalar(IdOf(i))))
                     @@ pre.server_object_entities[i].available_selectables
            /\ IdOf(i) \in before..(after - 1)
            /\ post.client_scalar_selectables[IdOf(i) + 1]
                 .parent_object_entity_id = i - 1
            /\ post.client_scalar_selectables[IdOf(i) + 1].name
                 = REFETCH_FIELD_NAME
            /\ \A j \in eligible : i # j => IdOf(i) # IdOf(j)
       /\ \A i \in 1..Len(pre.server_object_entities) :
            i \notin eligible =>
              post.server_object_entities[i] = pre.server_object_entities[i]
       /\ refetched.result.ok <=> failing = {}
       /\ refetched.result.ok =>
            /\ Len(refetched.result.value) = Cardinality(eligible)
            /\ \A i \in eligible :
                 \E k \in 1..Len(refetched.result.value) :
                   refetched.result.value[k].client_field_id = IdOf(i)
       /\ ~refetched.result.ok =>
            /\ refetched.result.error = "MultipleErrors"
            /\ Len(refetched.result.value) = Cardinality(failing)
            /\ \A k \in 1..Len(refetched.result.value) :
                 refetched.result.value[k] = "DuplicateRefetchField"

\* A call in which an object fails, a later object gets its refetch field,
\* and a second object fails as well.
C30_Witness ==
  /\ refetched.called
  /\ ~refetched.result.ok
  /\ Len(refetched.result.value) = 2
  /\ \E i \in Failing(refetched.pre) :
       \E j \in Eligible(refetched.pre) :
         /\ i < j
         /\ REFETCH_FIELD_NAME \in
              DOMAIN isograph_schema.server_object_entities[j]
                .available_selectables

====
